---- MODULE Spec2Model ----
(***************************************************************************)
(* A model of via's session lifecycle and patch-dispatch engine:           *)
(*   - the context registry, cleanupCtx and the reaper (via.go),           *)
(*   - the action gateway GET /_action/{id} (via.go, ratelimit.go),        *)
(*   - signals, Sync, sendPatch and the SSE pump (context.go, signal.go).  *)
(* Each part has its own specification over the shared variables; the     *)
(* variables a specification does not use keep their initial value.       *)
(***************************************************************************)
EXTENDS Integers, Sequences, FiniteSets, TLC

(***************************************************************************)
(* Bounds of the model.                                                    *)
(***************************************************************************)
\* number of *Context objects ever allocated by page requests
NCtx == 2
\* cfg.ContextTTL handed to reapOrphanedContexts, in clock units
TTL == 1
\* the clock runs from 0 to MaxTime: an age can exceed the TTL by one unit
MaxTime == TTL + 1

\* length in bytes of an anti-forgery token
TokenLen == 2
\* burst of the context-level limiter (RateLimitConfig.Burst)
CtxBurst == 2
\* burst of a per-action limiter (WithRateLimit)
ActBurst == 1
\* number of Sync calls of a behaviour
MaxSyncs == 2
\* number of OnInterval routines of a session
MaxWorkers == 1
\* number of backend subscriptions ever created
MaxSubs == 2
\* component contexts of the pages
MaxComps == 2
MaxPumps == 2
MaxBurst == 2

(***************************************************************************)
(* Program constants.                                                      *)
(***************************************************************************)
\* patchChan: make(chan patch, 1)
PatchChanCap == 1
\* ctxDisposedChan: make(chan struct{}, 1)
DisposedChanCap == 1
\* startReaper: ttl = 30 * time.Second when cfg.ContextTTL is zero; the clock
\* unit is this default
DefaultTTL == 1

\* the page contexts
CtxObjs == 1..NCtx
\* the component contexts, and every context
CompObjs == (NCtx + 1)..(NCtx + MaxComps)
AllCtxs == CtxObjs \cup CompObjs
\* the nil *Context / a missing registry entry
NoCtx == 0
\* the non-empty context identifiers
Ids == 1..NCtx
\* the empty identifier "" of the dry-run context
EmptyId == 0

\* the bytes of a token
Bytes == {0, 1}
\* the tokens genCSRFToken produces here: TokenLen equal bytes
SessionTokens == {[i \in 1..TokenLen |-> b] : b \in Bytes}
\* the via-csrf value of a request: a session token, the zero token cut
\* short by a byte or with its last byte changed, or the missing one ("")
ZeroToken == [i \in 1..TokenLen |-> 0]
RequestTokens ==
    SessionTokens \cup {<<>>, SubSeq(ZeroToken, 1, TokenLen - 1),
                        [ZeroToken EXCEPT ![TokenLen] = 1]}
\* a nil *rate.Limiter
NoLimiter == -1
\* the actions of the page, and an identifier the page does not define
ActionIds == {"inc", "boom", "lim"}
RequestActionIds == ActionIds \cup {"missing"}
\* a missing entry of the action registry, and of the signals map
NoEntry == [fn |-> "none", limiter |-> NoLimiter]
\* the names of signals
SigNames == {"a", "b"}
\* Values. A string is the number of its text, in the order "0", "1", "[0]",
\* "[1]"; a number n is IntV(n); the slice []int{n} is SliceV(n).
Ints == {0, 1}
IntV(n) == [k |-> "int", v |-> n]
StrV(t) == [k |-> "str", v |-> t]
SliceV(n) == [k |-> "slice", v |-> n]
NoVal == [k |-> "none", v |-> 0]
\* the text of the decimal form of n, and of the JSON form of []int{n}
DecimalText(n) == n + 1
SliceText(n) == Cardinality(Ints) + n + 1
\* a missing entry of the signals map
NoSig == [val |-> NoVal, changed |-> FALSE, err |-> FALSE]
\* a nil interface value, the text "error", a nil func and a nil *actionTrigger
NilV == [k |-> "nil", v |-> 0]
ErrorText == 0
NilFn == "nil"
NoHandle == ""
\* no declaration yet
NoDecl == [op |-> "none", by |-> NoCtx, nil |-> FALSE, sig |-> NoSig,
           handle |-> NoHandle]

VARIABLES
    \* ---- registry and contexts (via.go, context.go)
    contextRegistry,   \* V.contextRegistry: identifier -> *Context or NoCtx
    ctxs,              \* the fields of every *Context object
    nextCtx,           \* the next object a page request allocates
    now,               \* time.Now()
    streaming,         \* the contexts whose SSE pump loop is running
    reaperPc,          \* "idle" | "reap": reapOrphanedContexts after its snapshot
    orphans,           \* the orphans slice of the running sweep
    \* ---- history variables of the lifecycle claims
    cleaned,           \* contexts on which a cleanupCtx call has returned
    cleanedTwice,      \* contexts on which two or more calls have returned
    reRegistered,      \* cleaned contexts whose identifier was registered again
    panicked,          \* a panic escaped a handler
    swept,             \* the selection of the last snapshot, never shrunk
    \* ---- the action gateway (via.go, ratelimit.go)
    csrfToken,         \* Context.csrfToken of every context
    actionLimiter,     \* Context.actionLimiter: its tokens, or NoLimiter
    actionRegistry,    \* Context.actionRegistry: action id -> actionEntry
    signals,           \* Context.signals: name -> signal or NoSig
    \* ---- history variables of the gateway claims
    reqSeq,            \* flips at every action request
    lastReq,           \* the last action request
    lastResp,          \* what the handler did with it
    recoveredPanics,   \* a callback panic has been recovered
    \* ---- Sync, sendPatch and the pump (context.go, via.go)
    patchChan,         \* Context.patchChan: the queued patches
    viewState,         \* the page data the view function renders
    syncPc,            \* "idle" | "signals": Sync between its two sendPatch calls
    \* ---- history variables of the sync claims
    declared,          \* the names created by Context.Signal
    syncCount,         \* Sync calls started
    lastSync,          \* what the last Sync call did
    dirtied,           \* names whose flag was set since the last delta and
                       \* not cleared by an injection since
    touched,           \* a declaration, SetValue or injection since the last delta
    injected,          \* name -> the value its last write injected, if an injection
    roundTrip,         \* injected names whose injection repeated the string
                       \* form of a declared value
    written,           \* <<type, Sync call>> of every patch the pump wrote
    lastElems,         \* the content of the last elements patch written
    \* ---- configuration, routines, pub/sub and components
    cfgTTL,            \* v.cfg.ContextTTL
    workers,           \* per context: the OnInterval routines that listen on
                       \* its ctxDisposedChan
    subscriptions,     \* Context.subscriptions: the tracked handles
    pubsubSubs,        \* the backend: handle -> its subscription or NoSub
    inflight,          \* contexts an action request has looked up: their
                       \* callback is running
    parentPageCtx,     \* Context.parentPageCtx, NoCtx for a page context
    componentRegistry, \* Context.componentRegistry: the child contexts
    building,          \* the page context a page request is initialising
    componentMaps,     \* per component context: the names stored in its own
                       \* signals and actionRegistry maps
    \* ---- history variables of these parts
    connect,           \* what the last GET /_sse handler did on entry
    lastPublish,       \* the last publish and the handles whose handler ran
    backend,           \* v.pubsub # nil: a pub/sub backend is configured
    lastCall,          \* the last c.Subscribe and c.Publish and their results
    stopped,           \* handles unsubscribed by their holder, or tracked by
                       \* their session when it was disposed
    declaredBy,        \* signal or action name -> the context that declared it
    lastDecl,          \* the last c.Signal or c.Action call and what it returned
    \* ---- the server: close requests, shutdown, routes
    lastClose,         \* the last POST /_session/close and what it found
    shutdownPc,        \* "running" | "drain" | "dispose" | "done": V.shutdown;
                       \* "panicked" when a call of it panicked
    reaperStop,        \* "open" | "closed": the channel v.reaperStop
    drainContexts,     \* drainAllContexts: the contexts it has yet to dispose
    drained,           \* the contexts drainAllContexts has disposed
    routes,            \* the routes v.mux holds a page handler for
    lastPage,          \* the last call of V.Page and how it ended
    accessing,         \* the accesses to session state goroutines are inside
    pumps,             \* context -> the GET /_sse handlers in their pump loop
    running,           \* the contexts an action callback is running on
    \* ---- DevMode's file of persisted contexts; newLimiter
    persisted,         \* .via/devmode/ctx.json: identifier -> route
    lastPersist,       \* the last devModePersist or devModeRemovePersisted
    lastLimiter        \* the last newLimiter call, its result and its use

regVars == <<contextRegistry, ctxs, nextCtx, now, streaming,
             reaperPc, orphans, cleaned, cleanedTwice, reRegistered, swept>>

lifeVars == <<regVars, panicked>>

actVars == <<csrfToken, actionLimiter, actionRegistry, reqSeq, lastReq,
             lastResp, recoveredPanics>>

syncVars == <<patchChan, viewState, syncPc, declared, syncCount, lastSync,
              dirtied, touched, injected, roundTrip, written, lastElems>>

callVars == <<backend, lastCall>>
pubsubVars == <<subscriptions, pubsubSubs, inflight, lastPublish, stopped,
                callVars>>

pageVars == <<parentPageCtx, componentRegistry, building, componentMaps,
             declaredBy, lastDecl>>

routeVars == <<routes, lastPage>>
srvVars == <<lastClose, shutdownPc, reaperStop, drainContexts, drained,
             routeVars, accessing>>

toolVars == <<persisted, lastPersist, lastLimiter>>
cfgVars == <<cfgTTL, pumps, running, toolVars>>

extVars == <<cfgVars, workers, connect, pubsubVars, pageVars, srvVars>>

vars == <<lifeVars, actVars, signals, syncVars, extVars>>

(***************************************************************************)
(* Contexts.                                                               *)
(***************************************************************************)
\* newContext(id, route, v); createdAt and sseConnected are the fields the
\* reaper and its tests read.
NewContext(id, t) ==
    [id |-> id, createdAt |-> t, sseConnected |-> FALSE, ctxDisposedChan |-> 0]

Allocated == 1..(nextCtx - 1)

\* Context.stopAllRoutines: a non-blocking send on ctxDisposedChan. The result
\* is the channel's new content and whether the call panicked.
StopAllRoutinesCloses(ch) ==
    [ch |-> DisposedChanCap, panic |-> ch >= DisposedChanCap]

StopAllRoutinesNoSend(ch) == [ch |-> ch, panic |-> FALSE]

StopAllRoutines(ch) ==
    IF ch < DisposedChanCap
    THEN [ch |-> ch + 1, panic |-> FALSE]
    ELSE [ch |-> ch, panic |-> FALSE]

\* Context.dispose: signals the disposal channel; idempotent.
Dispose(cs, c) ==
    [cs EXCEPT ![c].ctxDisposedChan = StopAllRoutines(cs[c].ctxDisposedChan).ch]

DisposePanics(cs, c) == StopAllRoutines(cs[c].ctxDisposedChan).panic

(***************************************************************************)
(* The registry.                                                           *)
(***************************************************************************)
RegisterCtxKeepsOld(reg, id, c) ==
    IF c = NoCtx \/ reg[id] # NoCtx THEN reg ELSE [reg EXCEPT ![id] = c]

\* V.registerCtx: v.contextRegistry[c.id] = c
RegisterCtx(reg, id, c) ==
    IF c = NoCtx THEN reg ELSE [reg EXCEPT ![id] = c]

UnregisterCtxKeeps(reg, id) == reg

\* V.unregisterCtx: delete(v.contextRegistry, c.id), unless c.id is empty
UnregisterCtx(reg, id) ==
    IF id = EmptyId THEN reg ELSE [reg EXCEPT ![id] = NoCtx]

GetCtxOrAny(reg, id) ==
    IF id \in DOMAIN reg /\ reg[id] # NoCtx THEN reg[id]
    ELSE IF \E i \in DOMAIN reg : reg[i] # NoCtx
         THEN reg[CHOOSE i \in DOMAIN reg : reg[i] # NoCtx]
         ELSE NoCtx

\* V.getCtx: the context, or NoCtx for the not-found error
GetCtx(reg, id) ==
    IF id \in DOMAIN reg /\ reg[id] # NoCtx THEN reg[id] ELSE NoCtx

Registered == {contextRegistry[i] : i \in Ids} \ {NoCtx}

\* startReaper: the ttl its loop hands to reapOrphanedContexts; a zero
\* cfg.ContextTTL selects the default
ReaperTTL(ttl) == IF ttl = 0 THEN DefaultTTL ELSE ttl

\* the selection of reapOrphanedContexts
ReapSelectIgnoresConnection(reg, cs, t, ttl) ==
    {c \in {reg[i] : i \in Ids} \ {NoCtx} : t - cs[c].createdAt > ttl}

ReapSelectNone(reg, cs, t, ttl) == {}

ReapSelectInclusive(reg, cs, t, ttl) ==
    {c \in {reg[i] : i \in Ids} \ {NoCtx} :
        ~cs[c].sseConnected /\ t - cs[c].createdAt >= ttl}

ReapSelect(reg, cs, t, ttl) ==
    {c \in {reg[i] : i \in Ids} \ {NoCtx} :
        ~cs[c].sseConnected /\ t - cs[c].createdAt > ttl}

(***************************************************************************)
(* The pub/sub backend, as the in-memory backend of the tests implements   *)
(* it, and what a context does with it.                                    *)
(***************************************************************************)
\* the handles of backend subscriptions, and the topics
SubIds == 1..MaxSubs
\* the values of the message type T of the typed helpers, a struct with one
\* integer field, and the byte strings a publisher can send
MsgVals == {1}
Payloads ==
    [json : {"object"}, field : {"count", "other"}, v : MsgVals]
        \cup [json : {"invalid", "number"}, field : {""}, v : MsgVals]

\* json.Marshal(msg)
JsonMarshal(m) == [json |-> "object", field |-> "count", v |-> m]

\* json.Unmarshal(data, &msg): an error for bytes that are not JSON or not
\* an object; a field the struct does not have is ignored
JsonUnmarshal(d) ==
    IF d.json # "object" THEN [err |-> TRUE, msg |-> 0]
    ELSE IF d.field = "count" THEN [err |-> FALSE, msg |-> d.v]
    ELSE [err |-> FALSE, msg |-> 0]

TypedHandlerIgnoresError(d) == [calls |-> 1, msg |-> JsonUnmarshal(d).msg]

\* the closure of the typed Subscribe: how often it calls the user handler
\* for one delivery, and with what
TypedHandler(d) ==
    LET r == JsonUnmarshal(d) IN
    IF r.err THEN [calls |-> 0, msg |-> 0] ELSE [calls |-> 1, msg |-> r.msg]

Topics == {"room"}
\* no subscription under a handle
NoSub == [owner |-> NoCtx, topic |-> "none", active |-> FALSE]

\* mockPubSub.Subscribe: a handler, active, under the next handle
MockSubscribe(subs, h, c, t) ==
    [subs EXCEPT ![h] = [owner |-> c, topic |-> t, active |-> TRUE]]

MockUnsubscribeKeeps(subs, h) == subs

\* mockSub.Unsubscribe: s.handler.active.Store(false)
MockUnsubscribe(subs, h) == [subs EXCEPT ![h].active = FALSE]

\* mockPubSub.Publish: the handlers of the subject that are called
MockPublish(subs, t) ==
    {h \in SubIds : subs[h].topic = t /\ subs[h].active}

\* Context.unsubscribeAll: Unsubscribe on every tracked handle
UnsubscribeAll(subs, tracked) ==
    [h \in SubIds |->
        IF h \in tracked THEN MockUnsubscribe(subs, h)[h] ELSE subs[h]]

\* the handles the backend has given out
UsedSubs == {h \in SubIds : pubsubSubs[h] # NoSub}

(***************************************************************************)
(* Lifecycle actions.                                                      *)
(***************************************************************************)
\* the gateway's and the signals' variables before any page request
ActIdle ==
    /\ csrfToken = [c \in CtxObjs |-> <<>>]
    /\ actionLimiter = [c \in CtxObjs |-> NoLimiter]
    /\ actionRegistry = [c \in CtxObjs |-> [a \in ActionIds |-> NoEntry]]
    /\ reqSeq = 0
    /\ lastReq = [id |-> EmptyId, tok |-> <<>>, aid |-> "missing"]
    /\ lastResp = [status |-> 0, outcome |-> "none", invoked |-> FALSE, c |-> NoCtx]
    /\ recoveredPanics = FALSE

SigIdle == signals = [c \in CtxObjs |-> [n \in SigNames |-> NoSig]]

\* no Sync call yet
NoSync == [n |-> 0, by |-> NoCtx, view |-> NoCtx, failed |-> FALSE,
           elems |-> "none", html |-> 0, delta |-> <<>>,
           sigs |-> "none", expected |-> <<>>, clean |-> {}, quiet |-> FALSE,
           drained |-> FALSE, done |-> FALSE]
\* no elements patch written yet
NoElems == [n |-> 0, html |-> 0]

SyncIdle ==
    /\ patchChan = [c \in CtxObjs |-> <<>>]
    /\ viewState = 0
    /\ syncPc = "idle"
    /\ declared = {}
    /\ syncCount = 0
    /\ lastSync = NoSync
    /\ dirtied = {}
    /\ touched = FALSE
    /\ injected = [n \in SigNames |-> NoVal]
    /\ roundTrip = {}
    /\ written = <<>>
    /\ lastElems = NoElems

\* no GET /_sse request yet, no publish yet
NoConnect == [c |-> NoCtx, reconnect |-> FALSE, pc |-> "none", alive |-> FALSE]
NoPublish == [from |-> NoCtx, topic |-> "none", to |-> {}, subs |-> {},
              stopped |-> {},
              data |-> [json |-> "none", field |-> "", v |-> 0],
              got |-> <<>>]
\* a nil Subscription; no c.Subscribe and no c.Publish call yet
NilSub == 0
NoCall ==
    LET none == [dry |-> FALSE, err |-> FALSE, handle |-> NilSub]
    IN  [subscribe |-> none, publish |-> none]

\* no entry in the file of persisted contexts; no call on it yet; no call of
\* newLimiter yet
NoRoute == ""
\* the identifiers the file may hold: those of this run and one of an
\* earlier run of the server
PersistIds == 1..(NCtx + 1)
NoPersist ==
    [op |-> "none", id |-> EmptyId, before |-> [i \in PersistIds |-> NoRoute]]
NoLimiterCall == [rate |-> 0, burst |-> 0, defaultRate |-> 0, defaultBurst |-> 0,
                  lim |-> [nil |-> TRUE, rate |-> 0, burst |-> 0, tokens |-> 0],
                  admitted |-> 0, denied |-> FALSE]

\* no POST /_session/close yet, no call of V.Page yet
NoClose == [seq |-> 0, id |-> EmptyId, c |-> NoCtx]
NoPage == [seq |-> 0, route |-> "", init |-> "", initRuns |-> 0,
           viewRuns |-> 0, panicked |-> FALSE, dry |-> NoCtx]

\* the server has handled no close request and is not shutting down
SrvIdle ==
    /\ lastClose = NoClose
    /\ shutdownPc = "running"
    /\ reaperStop = "open"
    /\ drainContexts = {}
    /\ drained = {}
    /\ routes = {}
    /\ lastPage = NoPage
    /\ accessing = {}
    /\ pumps = [c \in CtxObjs |-> 0]
    /\ running = {}
    /\ persisted = [i \in PersistIds |-> NoRoute]
    /\ lastPersist = NoPersist
    /\ lastLimiter = NoLimiterCall

\* no routine, subscription or component; the reaper runs with TTL; b tells
\* whether Config was given a pub/sub backend
ExtIdleWith(b) ==
    /\ SrvIdle
    /\ backend = b
    /\ lastCall = NoCall
    /\ cfgTTL = TTL
    /\ workers = [c \in CtxObjs |-> 0]
    /\ subscriptions = [c \in CtxObjs |-> {}]
    /\ pubsubSubs = [h \in SubIds |-> NoSub]
    /\ parentPageCtx = [c \in AllCtxs |-> NoCtx]
    /\ componentRegistry = [c \in AllCtxs |-> {}]
    /\ componentMaps = [c \in CompObjs |-> {}]
    /\ building = NoCtx
    /\ connect = NoConnect
    /\ lastPublish = NoPublish
    /\ inflight = {}
    /\ stopped = {}
    /\ declaredBy = [n \in SigNames \cup ActionIds |-> NoCtx]
    /\ lastDecl = NoDecl

ExtIdle == ExtIdleWith(TRUE)

\* the application after New and Config, before any request
LifeIdle(b) ==
    /\ ActIdle
    /\ SigIdle
    /\ SyncIdle
    /\ ExtIdleWith(b)
    /\ contextRegistry = [i \in Ids |-> NoCtx]
    /\ ctxs = [c \in CtxObjs |-> NewContext(EmptyId, 0)]
    /\ nextCtx = 1
    /\ now = 0
    /\ streaming = {}
    /\ reaperPc = "idle"
    /\ orphans = {}
    /\ cleaned = {}
    /\ cleanedTwice = {}
    /\ reRegistered = {}
    /\ panicked = FALSE
    /\ swept = {}

LifeInit == LifeIdle(TRUE)

\* time passes
Tick ==
    /\ now < MaxTime
    /\ now' = now + 1
    /\ UNCHANGED <<contextRegistry, ctxs, nextCtx, streaming, reaperPc,
                   orphans, cleaned, cleanedTwice, reRegistered, panicked, swept>>

\* GET <route>: newContext(id, route, v), initContextFn(c), registerCtx(c)
PageRequest(id) ==
    /\ nextCtx <= NCtx
    /\ ctxs' = [ctxs EXCEPT ![nextCtx] = NewContext(id, now)]
    /\ contextRegistry' = RegisterCtx(contextRegistry, id, nextCtx)
    /\ nextCtx' = nextCtx + 1
    /\ reRegistered' = reRegistered \cup {c \in cleaned : ctxs[c].id = id}
    /\ UNCHANGED <<now, streaming, reaperPc, orphans, cleaned, cleanedTwice,
                   panicked, swept>>

\* GET /_sse up to the pump loop: getCtx, sseConnected.Store(true)
SSEConnect(id) ==
    LET c == GetCtx(contextRegistry, id) IN
    /\ c # NoCtx
    /\ c \notin streaming
    /\ ctxs' = [ctxs EXCEPT ![c].sseConnected = TRUE]
    /\ streaming' = streaming \cup {c}
    /\ UNCHANGED <<contextRegistry, nextCtx, now, reaperPc, orphans,
                   cleaned, cleanedTwice, reRegistered, panicked, swept>>

\* V.cleanupCtx(c): c.dispose(), then v.unregisterCtx(c)
CleanupCtx(c) ==
    /\ panicked' = (panicked \/ DisposePanics(ctxs, c))
    /\ ctxs' = Dispose(ctxs, c)
    /\ contextRegistry' = UnregisterCtx(contextRegistry, ctxs[c].id)
    /\ cleaned' = cleaned \cup {c}
    /\ cleanedTwice' = cleanedTwice \cup ({c} \cap cleaned)
    /\ pubsubSubs' = UnsubscribeAll(pubsubSubs, subscriptions[c])
    /\ subscriptions' = [subscriptions EXCEPT ![c] = {}]
    /\ stopped' = stopped \cup subscriptions[c]

\* the pump loop, case <-sse.Context().Done(): cleanupCtx(c); return
PumpTransportClosed(c) ==
    /\ c \in streaming
    /\ CleanupCtx(c)
    /\ streaming' = streaming \ {c}
    /\ UNCHANGED <<nextCtx, now, reaperPc, orphans, reRegistered, swept>>

\* the pump loop, case <-c.ctxDisposedChan: return
PumpDisposed(c) ==
    /\ c \in streaming
    /\ ctxs[c].ctxDisposedChan > 0
    /\ ctxs' = [ctxs EXCEPT ![c].ctxDisposedChan = @ - 1]
    /\ streaming' = streaming \ {c}
    /\ UNCHANGED <<contextRegistry, nextCtx, now, reaperPc, orphans,
                   cleaned, cleanedTwice, reRegistered, panicked, swept>>

\* POST /_session/close: getCtx(cID), then cleanupCtx(c)
SessionClose(id) ==
    LET c == GetCtx(contextRegistry, id) IN
    /\ c # NoCtx
    /\ CleanupCtx(c)
    /\ UNCHANGED <<nextCtx, now, streaming, reaperPc, orphans, reRegistered,
                   swept>>

\* reapOrphanedContexts: the snapshot under the read lock
ReaperSnapshot ==
    /\ reaperPc = "idle"
    /\ orphans' = ReapSelect(contextRegistry, ctxs, now, ReaperTTL(cfgTTL))
    /\ swept' = orphans'
    /\ reaperPc' = "reap"
    /\ UNCHANGED <<contextRegistry, ctxs, nextCtx, now, streaming,
                   cleaned, cleanedTwice, reRegistered, panicked>>

\* reapOrphanedContexts: cleanupCtx(c) for the next orphan
ReaperCleanup(c) ==
    /\ reaperPc = "reap"
    /\ c \in orphans
    /\ CleanupCtx(c)
    /\ orphans' = orphans \ {c}
    /\ UNCHANGED <<nextCtx, now, streaming, reaperPc, reRegistered, swept>>

\* reapOrphanedContexts returns
ReaperDone ==
    /\ reaperPc = "reap"
    /\ orphans = {}
    /\ reaperPc' = "idle"
    /\ UNCHANGED <<contextRegistry, ctxs, nextCtx, now, streaming,
                   orphans, cleaned, cleanedTwice, reRegistered, panicked, swept>>

\* identifiers no context was ever created with
FreshIds == Ids \ {ctxs[c].id : c \in Allocated}

LifeNext ==
    \/ Tick
         /\ UNCHANGED <<actVars, signals, syncVars, extVars>>
    \/ \E id \in Ids : PageRequest(id)
         /\ UNCHANGED <<actVars, signals, syncVars, extVars>>
    \/ \E id \in Ids : SSEConnect(id)
         /\ UNCHANGED <<actVars, signals, syncVars, extVars>>
    \/ \E id \in Ids : SessionClose(id)
         /\ UNCHANGED <<actVars, signals, syncVars, extVars>>
    \/ \E c \in CtxObjs : PumpTransportClosed(c)
         /\ UNCHANGED <<actVars, signals, syncVars, extVars>>
    \/ \E c \in CtxObjs : PumpDisposed(c)
         /\ UNCHANGED <<actVars, signals, syncVars, extVars>>
    \/ ReaperSnapshot
         /\ UNCHANGED <<actVars, signals, syncVars, extVars>>
    \/ \E c \in CtxObjs : ReaperCleanup(c)
         /\ UNCHANGED <<actVars, signals, syncVars, extVars>>
    \/ ReaperDone
         /\ UNCHANGED <<actVars, signals, syncVars, extVars>>

\* the lifecycle with identifiers that may be registered again
SpecLife == LifeInit /\ [][LifeNext]_vars

ReapNext ==
    \/ Tick
         /\ UNCHANGED <<actVars, signals, syncVars, extVars>>
    \/ \E id \in FreshIds : PageRequest(id)
         /\ UNCHANGED <<actVars, signals, syncVars, extVars>>
    \/ \E id \in Ids : SSEConnect(id)
         /\ UNCHANGED <<actVars, signals, syncVars, extVars>>
    \/ \E id \in Ids : SessionClose(id)
         /\ UNCHANGED <<actVars, signals, syncVars, extVars>>
    \/ \E c \in CtxObjs : PumpTransportClosed(c)
         /\ UNCHANGED <<actVars, signals, syncVars, extVars>>
    \/ \E c \in CtxObjs : PumpDisposed(c)
         /\ UNCHANGED <<actVars, signals, syncVars, extVars>>
    \/ ReaperSnapshot
         /\ UNCHANGED <<actVars, signals, syncVars, extVars>>
    \/ \E c \in CtxObjs : ReaperCleanup(c)
         /\ UNCHANGED <<actVars, signals, syncVars, extVars>>
    \/ ReaperDone
         /\ UNCHANGED <<actVars, signals, syncVars, extVars>>

\* the lifecycle with one identifier per context object, as genRandID
\* provides them
SpecReap == LifeInit /\ [][ReapNext]_vars

(***************************************************************************)
(* Start: the reaper is started, or not, from cfg.ContextTTL.              *)
(***************************************************************************)
ReaperNeverDisabled(ttl) == FALSE

\* startReaper: `if ttl < 0 { return }`
ReaperDisabled(ttl) == ttl < 0

\* the values of cfg.ContextTTL: negative, zero (not configured), positive
ConfiguredTTLs == {-1, 0, TTL}

\* V.Start, up to ListenAndServe: startReaper() starts the loop or returns
StartReaper ==
    /\ reaperPc = "unstarted"
    /\ reaperPc' = IF ReaperDisabled(cfgTTL) THEN "disabled" ELSE "idle"
    /\ UNCHANGED <<contextRegistry, ctxs, nextCtx, now, streaming, orphans,
                   cleaned, cleanedTwice, reRegistered, panicked, swept>>

\* a server configured with any TTL, before Start
StartInit ==
    /\ ActIdle
    /\ SigIdle
    /\ SyncIdle
    /\ cfgTTL \in ConfiguredTTLs
    /\ SrvIdle
    /\ backend = TRUE
    /\ lastCall = NoCall
    /\ workers = [c \in CtxObjs |-> 0]
    /\ connect = NoConnect
    /\ subscriptions = [c \in CtxObjs |-> {}]
    /\ pubsubSubs = [h \in SubIds |-> NoSub]
    /\ inflight = {}
    /\ lastPublish = NoPublish
    /\ stopped = {}
    /\ parentPageCtx = [c \in AllCtxs |-> NoCtx]
    /\ componentRegistry = [c \in AllCtxs |-> {}]
    /\ building = NoCtx
    /\ componentMaps = [c \in CompObjs |-> {}]
    /\ declaredBy = [n \in SigNames \cup ActionIds |-> NoCtx]
    /\ lastDecl = NoDecl
    /\ contextRegistry = [i \in Ids |-> NoCtx]
    /\ ctxs = [c \in CtxObjs |-> NewContext(EmptyId, 0)]
    /\ nextCtx = 1
    /\ now = 0
    /\ streaming = {}
    /\ reaperPc = "unstarted"
    /\ orphans = {}
    /\ cleaned = {}
    /\ cleanedTwice = {}
    /\ reRegistered = {}
    /\ panicked = FALSE
    /\ swept = {}

StartNext ==
    \/ StartReaper
         /\ UNCHANGED <<actVars, signals, syncVars, extVars>>
    \/ Tick
         /\ UNCHANGED <<actVars, signals, syncVars, extVars>>
    \/ \E id \in FreshIds : reaperPc # "unstarted" /\ PageRequest(id)
         /\ UNCHANGED <<actVars, signals, syncVars, extVars>>
    \/ \E id \in Ids : reaperPc # "unstarted" /\ SSEConnect(id)
         /\ UNCHANGED <<actVars, signals, syncVars, extVars>>
    \/ \E id \in Ids : reaperPc # "unstarted" /\ SessionClose(id)
         /\ UNCHANGED <<actVars, signals, syncVars, extVars>>
    \/ ReaperSnapshot
         /\ UNCHANGED <<actVars, signals, syncVars, extVars>>
    \/ \E c \in CtxObjs : ReaperCleanup(c)
         /\ UNCHANGED <<actVars, signals, syncVars, extVars>>
    \/ ReaperDone
         /\ UNCHANGED <<actVars, signals, syncVars, extVars>>

\* a server started with a negative, zero or positive TTL
SpecStart == StartInit /\ [][StartNext]_vars

(***************************************************************************)
(* POST /_session/close with any body.                                     *)
(***************************************************************************)
\* the bodies of close requests: identifiers, registered or not, and ""
CloseBodies == Ids \cup {EmptyId}

\* the handler: getCtx(cID); on an error log and return; else cleanupCtx(c)
CloseRequest(id) ==
    LET c == GetCtx(contextRegistry, id) IN
    /\ lastClose' = [seq |-> 1 - lastClose.seq, id |-> id, c |-> c]
    /\ IF c = NoCtx
       THEN UNCHANGED <<lifeVars, subscriptions, pubsubSubs, stopped>>
       ELSE SessionClose(id)
    /\ UNCHANGED <<actVars, signals, syncVars, cfgVars, workers, connect,
                   inflight, lastPublish, callVars, pageVars, shutdownPc,
                   reaperStop,
                   drainContexts, drained, routeVars, accessing>>

CloseNext ==
    \/ Tick
         /\ UNCHANGED <<actVars, signals, syncVars, extVars>>
    \/ \E id \in FreshIds : PageRequest(id)
         /\ UNCHANGED <<actVars, signals, syncVars, extVars>>
    \/ \E id \in Ids : SSEConnect(id)
         /\ UNCHANGED <<actVars, signals, syncVars, extVars>>
    \/ \E id \in CloseBodies : CloseRequest(id)
    \/ ReaperSnapshot
         /\ UNCHANGED <<actVars, signals, syncVars, extVars>>
    \/ \E c \in CtxObjs : ReaperCleanup(c)
         /\ UNCHANGED <<actVars, signals, syncVars, extVars>>
    \/ ReaperDone
         /\ UNCHANGED <<actVars, signals, syncVars, extVars>>

\* page requests, streams, the reaper, and close requests for known and
\* unknown identifiers
SpecClose == LifeInit /\ [][CloseNext]_vars

(***************************************************************************)
(* V.Page: the dry run of the init function, then the route's handler.     *)
(***************************************************************************)
Routes == {"/", "/a"}

\* the init functions a caller can pass: one that defines a view, one that
\* defines none, one that panics, one whose view panics
InitKinds == {"ok", "noView", "initPanics", "viewPanics"}

DryRunRecovers(init) ==
    [initRuns |-> 1,
     viewRuns |-> IF init \in {"ok", "viewPanics"} THEN 1 ELSE 0,
     panic |-> FALSE,
     stopped |-> TRUE]

\* the body of the dry run: initContextFn(c); c.view(); c.stopAllRoutines().
\* A panic of init skips the view; a nil c.view panics when it is called; the
\* deferred recover logs and panics again.
DryRun(init) ==
    LET initPanic == init = "initPanics"
        viewCalled == ~initPanic /\ init # "noView"
        viewPanic == ~initPanic /\ init \in {"noView", "viewPanics"}
    IN  [initRuns |-> 1,
         viewRuns |-> IF viewCalled THEN 1 ELSE 0,
         panic |-> initPanic \/ viewPanic,
         stopped |-> ~(initPanic \/ viewPanic)]

\* V.Page(route, initContextFn)
Page(route, init) ==
    LET d == DryRun(init)
        c == NewContext(EmptyId, now)
    IN  /\ route \notin routes
        /\ nextCtx <= NCtx
        /\ ctxs' = [ctxs EXCEPT ![nextCtx] =
                      IF d.stopped
                      THEN [c EXCEPT !.ctxDisposedChan =
                              StopAllRoutines(c.ctxDisposedChan).ch]
                      ELSE c]
        /\ nextCtx' = nextCtx + 1
        /\ routes' = IF d.panic THEN routes ELSE routes \cup {route}
        /\ lastPage' = [seq |-> 1 - lastPage.seq, route |-> route,
                        init |-> init, initRuns |-> d.initRuns,
                        viewRuns |-> d.viewRuns, panicked |-> d.panic,
                        dry |-> nextCtx]
        /\ UNCHANGED <<contextRegistry, now, streaming, reaperPc, orphans,
                       cleaned, cleanedTwice, reRegistered, panicked, swept>>

\* a GET the mux routes to a page handler: only an installed route has one
RouteRequest(route, id) ==
    /\ route \in routes
    /\ PageRequest(id)

RouteNext ==
    \/ \E r \in Routes, k \in InitKinds : Page(r, k)
         /\ UNCHANGED <<actVars, signals, syncVars, cfgVars, workers, connect,
                        pubsubVars, pageVars, lastClose, shutdownPc,
                        reaperStop, drainContexts, drained, accessing>>
    \/ \E r \in Routes, id \in FreshIds : RouteRequest(r, id)
         /\ UNCHANGED <<actVars, signals, syncVars, extVars>>
    \/ \E id \in Ids : SSEConnect(id)
         /\ UNCHANGED <<actVars, signals, syncVars, extVars>>
    \/ \E id \in CloseBodies : CloseRequest(id)
    \/ Tick /\ UNCHANGED <<actVars, signals, syncVars, extVars>>

\* an application whose pages are registered and then requested
SpecRoute == LifeInit /\ [][RouteNext]_vars

(***************************************************************************)
(* Shutdown: close(reaperStop), drainAllContexts, server.Shutdown.         *)
(***************************************************************************)
\* V.shutdown, first statement: close(v.reaperStop)
ShutdownBegin ==
    /\ shutdownPc = "running"
    /\ reaperStop' = "closed"
    /\ shutdownPc' = "drain"
    /\ UNCHANGED <<lifeVars, subscriptions, pubsubSubs, stopped, lastClose,
                   routeVars, accessing,
                   drainContexts, drained>>

\* drainAllContexts under the registry lock: copy the contexts and replace
\* the registry by an empty map
DrainSnapshot ==
    /\ shutdownPc = "drain"
    /\ drainContexts' = Registered
    /\ contextRegistry' = [i \in Ids |-> NoCtx]
    /\ shutdownPc' = "dispose"
    /\ UNCHANGED <<ctxs, nextCtx, now, streaming, reaperPc, orphans, cleaned,
                   cleanedTwice, reRegistered, panicked, swept, subscriptions,
                   pubsubSubs, stopped, lastClose, routeVars, accessing,
                   reaperStop, drained>>

\* drainAllContexts outside the lock: c.dispose() for the next context
DrainDispose(c) ==
    /\ shutdownPc = "dispose"
    /\ c \in drainContexts
    /\ panicked' = (panicked \/ DisposePanics(ctxs, c))
    /\ ctxs' = Dispose(ctxs, c)
    /\ pubsubSubs' = UnsubscribeAll(pubsubSubs, subscriptions[c])
    /\ subscriptions' = [subscriptions EXCEPT ![c] = {}]
    /\ stopped' = stopped \cup subscriptions[c]
    /\ drainContexts' = drainContexts \ {c}
    /\ drained' = drained \cup {c}
    /\ UNCHANGED <<contextRegistry, nextCtx, now, streaming, reaperPc, orphans,
                   cleaned, cleanedTwice, reRegistered, swept, lastClose,
                   routeVars, accessing,
                   shutdownPc, reaperStop>>

\* the rest of V.shutdown: server.Shutdown, pubsub.Close; Shutdown returns
ShutdownEnd ==
    /\ shutdownPc = "dispose"
    /\ drainContexts = {}
    /\ shutdownPc' = "done"
    /\ UNCHANGED <<lifeVars, subscriptions, pubsubSubs, stopped, lastClose,
                   routeVars, accessing,
                   reaperStop, drainContexts, drained>>

\* close(ch) of the Go runtime: closing a closed channel panics
CloseChan(ch) == [ch |-> "closed", panic |-> ch = "closed"]

\* V.Shutdown called again after a call of it has returned: v.reaperStop is
\* still the channel startReaper made, and it is closed once more
ShutdownAgain ==
    LET r == CloseChan(reaperStop) IN
    /\ shutdownPc = "done"
    /\ reaperStop' = r.ch
    /\ panicked' = (panicked \/ r.panic)
    /\ shutdownPc' = IF r.panic THEN "panicked" ELSE "drain"
    /\ UNCHANGED <<contextRegistry, ctxs, nextCtx, now, streaming, reaperPc,
                   orphans, cleaned, cleanedTwice, reRegistered, swept,
                   subscriptions, pubsubSubs, stopped, lastClose, routeVars,
                   accessing, drainContexts, drained>>

\* the server handles requests until server.Shutdown has closed it
Serving == shutdownPc \notin {"done", "panicked"}

ShutdownNext ==
    \/ \E id \in FreshIds : Serving /\ PageRequest(id)
         /\ UNCHANGED <<actVars, signals, syncVars, extVars>>
    \/ \E id \in Ids : Serving /\ SSEConnect(id)
         /\ UNCHANGED <<actVars, signals, syncVars, extVars>>
    \/ \E id \in Ids : Serving /\ SessionClose(id)
         /\ UNCHANGED <<actVars, signals, syncVars, extVars>>
    \/ ShutdownBegin
         /\ UNCHANGED <<actVars, signals, syncVars, cfgVars, workers, connect,
                        inflight, lastPublish, callVars, pageVars>>
    \/ DrainSnapshot
         /\ UNCHANGED <<actVars, signals, syncVars, cfgVars, workers, connect,
                        inflight, lastPublish, callVars, pageVars>>
    \/ \E c \in CtxObjs : DrainDispose(c)
         /\ UNCHANGED <<actVars, signals, syncVars, cfgVars, workers, connect,
                        inflight, lastPublish, callVars, pageVars>>
    \/ ShutdownEnd
         /\ UNCHANGED <<actVars, signals, syncVars, cfgVars, workers, connect,
                        inflight, lastPublish, callVars, pageVars>>
    \/ ShutdownAgain
         /\ UNCHANGED <<actVars, signals, syncVars, cfgVars, workers, connect,
                        inflight, lastPublish, callVars, pageVars>>

\* a serving application that is shut down at any moment
SpecShutdown == LifeInit /\ [][ShutdownNext]_vars

(***************************************************************************)
(* The listeners on a session's disposal channel: the pump loop and the    *)
(* OnInterval routines.                                                    *)
(***************************************************************************)
\* c.OnInterval(d, handler): a routine is started on the page context's
\* ctxDisposedChan
OnIntervalStart(c) ==
    /\ c \in Registered
    /\ workers[c] < MaxWorkers
    /\ workers' = [workers EXCEPT ![c] = @ + 1]
    /\ UNCHANGED <<lifeVars, cfgVars, connect, pubsubVars, pageVars, srvVars>>

\* the routine's loop, case <-ctxDisposedChan: return
WorkerDisposed(c) ==
    /\ workers[c] > 0
    /\ ctxs[c].ctxDisposedChan > 0
    /\ ctxs' = [ctxs EXCEPT ![c].ctxDisposedChan = @ - 1]
    /\ workers' = [workers EXCEPT ![c] = @ - 1]
    /\ UNCHANGED <<contextRegistry, nextCtx, now, streaming, reaperPc, orphans,
                   cleaned, cleanedTwice, reRegistered, panicked, swept,
                   cfgVars, connect, pubsubVars, pageVars, srvVars>>

RoutinesNext ==
    \/ \E id \in FreshIds : PageRequest(id)
         /\ UNCHANGED <<actVars, signals, syncVars, extVars>>
    \/ \E id \in Ids : SSEConnect(id)
         /\ UNCHANGED <<actVars, signals, syncVars, extVars>>
    \/ \E c \in CtxObjs : OnIntervalStart(c)
         /\ UNCHANGED <<actVars, signals, syncVars>>
    \/ \E id \in Ids : SessionClose(id)
         /\ UNCHANGED <<actVars, signals, syncVars, extVars>>
    \/ \E c \in CtxObjs : PumpTransportClosed(c)
         /\ UNCHANGED <<actVars, signals, syncVars, extVars>>
    \/ \E c \in CtxObjs : PumpDisposed(c)
         /\ UNCHANGED <<actVars, signals, syncVars, extVars>>
    \/ \E c \in CtxObjs : WorkerDisposed(c)
         /\ UNCHANGED <<actVars, signals, syncVars>>
    \/ Tick
         /\ UNCHANGED <<actVars, signals, syncVars, extVars>>
    \/ ReaperSnapshot
         /\ UNCHANGED <<actVars, signals, syncVars, extVars>>
    \/ \E c \in CtxObjs : ReaperCleanup(c)
         /\ UNCHANGED <<actVars, signals, syncVars, extVars>>
    \/ ReaperDone
         /\ UNCHANGED <<actVars, signals, syncVars, extVars>>

\* sessions with a pump and OnInterval routines, closed by the browser or
\* reaped
SpecRoutines == LifeInit /\ [][RoutinesNext]_vars

(***************************************************************************)
(* Publish and subscribe from the callbacks of a session.                  *)
(***************************************************************************)
\* GET /_action/{id}, from getCtx to the start of the callback: the handler
\* holds the context it looked up, and the callback may take any time
ActionLookup(id) ==
    LET c == GetCtx(contextRegistry, id) IN
    /\ c # NoCtx
    /\ c \notin inflight
    /\ inflight' = inflight \cup {c}
    /\ UNCHANGED <<subscriptions, pubsubSubs, lastPublish, stopped, callVars>>

PubSubOutcomesAlwaysCall(hasBackend, dry) == {"call"}

\* what c.Subscribe and c.Publish do: an error without a backend, nothing on
\* the dry-run context of V.Page, else the call on the backend. Without a
\* backend the dry-run context may get either of the first two.
PubSubOutcomes(hasBackend, dry) ==
    IF hasBackend
    THEN IF dry THEN {"noop"} ELSE {"call"}
    ELSE IF dry THEN {"error", "noop"} ELSE {"error"}

\* c.Subscribe(t, handler): the backend subscribes the handler and the handle
\* is tracked in c.subscriptions
ContextSubscribe(c, t) ==
    LET h == Cardinality(UsedSubs) + 1
        dry == ctxs[c].id = EmptyId
    IN
    /\ c \in Allocated
    /\ \E o \in PubSubOutcomes(backend, dry) :
         IF o = "call"
         THEN /\ h \in SubIds
              /\ pubsubSubs' = MockSubscribe(pubsubSubs, h, c, t)
              /\ subscriptions' = [subscriptions EXCEPT ![c] = @ \cup {h}]
              /\ lastCall' = [lastCall EXCEPT !.subscribe =
                                [dry |-> dry, err |-> FALSE, handle |-> h]]
         ELSE /\ lastCall' = [lastCall EXCEPT !.subscribe =
                                [dry |-> dry, err |-> o = "error",
                                 handle |-> NilSub]]
              /\ UNCHANGED <<pubsubSubs, subscriptions>>
    /\ UNCHANGED <<inflight, lastPublish, stopped, backend>>

\* c.Subscribe in a callback of a session
Subscribe(c, t) ==
    /\ c \in inflight
    /\ ContextSubscribe(c, t)

\* sub.Unsubscribe() in a callback, on a handle c.Subscribe returned
Unsubscribe(c, h) ==
    /\ c \in inflight
    /\ h \in UsedSubs
    /\ pubsubSubs[h].owner = c
    /\ h \notin stopped
    /\ pubsubSubs' = MockUnsubscribe(pubsubSubs, h)
    /\ stopped' = stopped \cup {h}
    /\ UNCHANGED <<subscriptions, inflight, lastPublish, callVars>>

\* c.Publish(t, data): the backend calls the active handlers of the topic;
\* each handler is the closure the typed Subscribe built
ContextPublish(c, t, d) ==
    LET dry == ctxs[c].id = EmptyId IN
    /\ c \in Allocated
    /\ \E o \in PubSubOutcomes(backend, dry) :
         /\ lastCall' = [lastCall EXCEPT !.publish =
                           [dry |-> dry, err |-> o = "error",
                            handle |-> NilSub]]
         /\ IF o = "call"
            THEN lastPublish' =
                   [from |-> c, topic |-> t,
                    to |-> MockPublish(pubsubSubs, t),
                    subs |-> {h \in UsedSubs : pubsubSubs[h].topic = t},
                    stopped |-> stopped,
                    data |-> d,
                    got |-> [h \in MockPublish(pubsubSubs, t) |->
                               TypedHandler(d)]]
            ELSE UNCHANGED lastPublish
    /\ UNCHANGED <<subscriptions, pubsubSubs, inflight, stopped, backend>>

\* the typed Publish in a callback of a session
Publish(c, t) ==
    /\ c \in inflight
    /\ \E m \in MsgVals : ContextPublish(c, t, JsonMarshal(m))

PubSubNext ==
    \/ \E id \in FreshIds : PageRequest(id)
         /\ UNCHANGED <<actVars, signals, syncVars, extVars>>
    \/ \E id \in Ids : ActionLookup(id)
         /\ UNCHANGED <<lifeVars, actVars, signals, syncVars, cfgVars, workers,
                        connect, pageVars, srvVars>>
    \/ \E c \in CtxObjs, t \in Topics : Subscribe(c, t)
         /\ UNCHANGED <<lifeVars, actVars, signals, syncVars, cfgVars, workers,
                        connect, pageVars, srvVars>>
    \/ \E c \in CtxObjs, h \in SubIds : Unsubscribe(c, h)
         /\ UNCHANGED <<lifeVars, actVars, signals, syncVars, cfgVars, workers,
                        connect, pageVars, srvVars>>
    \/ \E c \in CtxObjs, t \in Topics : Publish(c, t)
         /\ UNCHANGED <<lifeVars, actVars, signals, syncVars, cfgVars, workers,
                        connect, pageVars, srvVars>>
    \/ \E id \in Ids : SessionClose(id)
         /\ UNCHANGED <<actVars, signals, syncVars, cfgVars, workers, connect,
                        pageVars, srvVars, inflight, lastPublish, callVars>>

\* sessions whose callbacks subscribe, unsubscribe and publish, closed by
\* the browser
SpecPubSub == LifeInit /\ [][PubSubNext]_vars

(***************************************************************************)
(* Publish and subscribe with and without a backend, on the sessions of    *)
(* page requests and on the dry-run context of V.Page.                     *)
(***************************************************************************)
\* V.Config(Options{PubSub: ps}) with a backend
ConfigPubSub ==
    /\ ~backend
    /\ backend' = TRUE
    /\ UNCHANGED <<subscriptions, pubsubSubs, inflight, lastPublish, stopped,
                   lastCall>>

BackendNext ==
    \/ ConfigPubSub
         /\ UNCHANGED <<lifeVars, actVars, signals, syncVars, cfgVars, workers,
                        connect, pageVars, srvVars>>
    \/ \E r \in Routes : Page(r, "ok")
         /\ UNCHANGED <<actVars, signals, syncVars, cfgVars, workers, connect,
                        pubsubVars, pageVars, lastClose, shutdownPc,
                        reaperStop, drainContexts, drained, accessing>>
    \/ \E id \in FreshIds : PageRequest(id)
         /\ UNCHANGED <<actVars, signals, syncVars, extVars>>
    \/ \E c \in CtxObjs, t \in Topics : ContextSubscribe(c, t)
         /\ UNCHANGED <<lifeVars, actVars, signals, syncVars, cfgVars, workers,
                        connect, pageVars, srvVars>>
    \/ \E c \in CtxObjs, t \in Topics, d \in Payloads : ContextPublish(c, t, d)
         /\ UNCHANGED <<lifeVars, actVars, signals, syncVars, cfgVars, workers,
                        connect, pageVars, srvVars>>

\* an application that gets its backend late, or never
SpecBackend == LifeIdle(FALSE) /\ [][BackendNext]_vars

(***************************************************************************)
(* The action gateway: GET /_action/{id}.                                  *)
(***************************************************************************)
\* subtle.ConstantTimeCompare: 1 when the two byte strings are equal
ConstantTimeCompare(x, y) ==
    IF Len(x) = Len(y) /\ \A i \in 1..Len(x) : x[i] = y[i] THEN 1 ELSE 0

CsrfRejectedUnlessMissing(tok, ctok) ==
    tok # <<>> /\ ConstantTimeCompare(tok, ctok) # 1

\* the handler's token check: reject unless the comparison yields 1
CsrfRejected(tok, ctok) == ConstantTimeCompare(tok, ctok) # 1

LimiterAllowsAlways(tokens) == TRUE

\* rate.Limiter.Allow at one instant: a token bucket
LimiterAllows(tokens) == tokens >= 1
LimiterTake(tokens) == IF tokens >= 1 THEN tokens - 1 ELSE tokens

\* the gate `limiter != nil && !limiter.Allow()`
LimiterDenies(lim) == lim # NoLimiter /\ ~LimiterAllows(lim)
LimiterAfter(lim) == IF lim = NoLimiter THEN lim ELSE LimiterTake(lim)

GetActionFallsBack(reg, aid) ==
    IF aid \in DOMAIN reg THEN reg[aid] ELSE reg["inc"]

\* Context.getAction
GetAction(reg, aid) == IF aid \in DOMAIN reg THEN reg[aid] ELSE NoEntry

\* Context.injectSignals(sigs): a new name is stored clean, a known one is
\* overwritten and its changed flag cleared
InjectSignalsKeepsDirty(sm, sigs) ==
    [n \in SigNames |->
        IF n \notin DOMAIN sigs THEN sm[n]
        ELSE IF sm[n] = NoSig
             THEN [val |-> sigs[n], changed |-> FALSE, err |-> FALSE]
             ELSE [sm[n] EXCEPT !.val = sigs[n]]]

InjectSignals(sm, sigs) ==
    [n \in SigNames |->
        IF n \notin DOMAIN sigs THEN sm[n]
        ELSE IF sm[n] = NoSig
             THEN [val |-> sigs[n], changed |-> FALSE, err |-> FALSE]
             ELSE [sm[n] EXCEPT !.val = sigs[n], !.changed = FALSE]]

RunCallbackNoRecover(fn) ==
    [invoked |-> TRUE, recovered |-> FALSE, escaped |-> fn = "panic"]

\* entry.fn() under the deferred recover()
RunCallback(fn) ==
    [invoked |-> TRUE, recovered |-> fn = "panic", escaped |-> FALSE]

\* the inbound signal maps of a request (without via-ctx and via-csrf)
InboundSigs == {<<>>, [n \in {"a"} |-> StrV(DecimalText(0))]}

\* the handler: its response and what it leaves in the session
ActionRequest(id, tok, aid, sigs) ==
    LET c == GetCtx(contextRegistry, id)
        entry == GetAction(actionRegistry[c], aid)
        Answer(status, outcome, invoked) ==
            /\ lastResp' = [status |-> status, outcome |-> outcome,
                            invoked |-> invoked, c |-> c]
    IN
    /\ reqSeq' = 1 - reqSeq
    /\ lastReq' = [id |-> id, tok |-> tok, aid |-> aid]
    /\ UNCHANGED <<regVars, csrfToken>>
    /\ IF c = NoCtx
       THEN /\ Answer(200, "SessionNotFound", FALSE)
            /\ UNCHANGED <<actionLimiter, actionRegistry, signals, recoveredPanics,
                           panicked>>
       ELSE IF CsrfRejected(tok, csrfToken[c])
       THEN /\ Answer(403, "Forbidden", FALSE)
            /\ UNCHANGED <<actionLimiter, actionRegistry, signals, recoveredPanics,
                           panicked>>
       ELSE IF LimiterDenies(actionLimiter[c])
       THEN /\ Answer(429, "RateLimited", FALSE)
            /\ UNCHANGED <<actionLimiter, actionRegistry, signals, recoveredPanics,
                           panicked>>
       ELSE IF entry = NoEntry
       THEN /\ Answer(200, "ActionNotFound", FALSE)
            /\ actionLimiter' = [actionLimiter EXCEPT ![c] = LimiterAfter(@)]
            /\ UNCHANGED <<actionRegistry, signals, recoveredPanics, panicked>>
       ELSE IF LimiterDenies(entry.limiter)
       THEN /\ Answer(429, "RateLimitedPerAction", FALSE)
            /\ actionLimiter' = [actionLimiter EXCEPT ![c] = LimiterAfter(@)]
            /\ UNCHANGED <<actionRegistry, signals, recoveredPanics, panicked>>
       ELSE LET r == RunCallback(entry.fn) IN
            /\ Answer(200, IF entry.fn = "panic" THEN "ActionPanicked" ELSE "Invoked",
                      r.invoked)
            /\ actionLimiter' = [actionLimiter EXCEPT ![c] = LimiterAfter(@)]
            /\ actionRegistry' =
                 [actionRegistry EXCEPT ![c][aid].limiter = LimiterAfter(@)]
            /\ signals' = [signals EXCEPT ![c] = InjectSignals(@, sigs)]
            /\ recoveredPanics' = (recoveredPanics \/ r.recovered)
            /\ panicked' = (panicked \/ r.escaped)

\* time passes: the context-level bucket gains a token
LimiterRefill(c) ==
    /\ c \in Registered
    /\ actionLimiter[c] # NoLimiter
    /\ actionLimiter[c] < CtxBurst
    /\ actionLimiter' = [actionLimiter EXCEPT ![c] = @ + 1]
    /\ UNCHANGED <<lifeVars, csrfToken, actionRegistry, signals, reqSeq, lastReq,
                   lastResp, recoveredPanics, syncVars>>

\* time passes: a per-action bucket gains a token
ActionLimiterRefill(c, aid) ==
    /\ c \in Registered
    /\ actionRegistry[c][aid].limiter # NoLimiter
    /\ actionRegistry[c][aid].limiter < ActBurst
    /\ actionRegistry' = [actionRegistry EXCEPT ![c][aid].limiter = @ + 1]
    /\ UNCHANGED <<lifeVars, csrfToken, actionLimiter, signals, reqSeq, lastReq,
                   lastResp, recoveredPanics, syncVars>>

\* the page of the gateway's session: c.Action(inc), c.Action(boom),
\* c.Action(lim, WithRateLimit(r, ActBurst))
PageActions ==
    [a \in ActionIds |->
        [fn |-> IF a = "boom" THEN "panic" ELSE "ok",
         limiter |-> IF a = "lim" THEN ActBurst ELSE NoLimiter]]

\* the identifier of the gateway's session, and one that is not registered
RequestIds == {1, NCtx}

\* one session, registered by a page request under the first identifier
ActInit ==
    /\ contextRegistry = [i \in Ids |-> IF i = 1 THEN 1 ELSE NoCtx]
    /\ ctxs = [c \in CtxObjs |-> NewContext(IF c = 1 THEN 1 ELSE EmptyId, 0)]
    /\ nextCtx = 2
    /\ now = 0
    /\ streaming = {}
    /\ reaperPc = "idle"
    /\ orphans = {}
    /\ cleaned = {}
    /\ cleanedTwice = {}
    /\ reRegistered = {}
    /\ panicked = FALSE
    /\ swept = {}
    /\ \E t \in SessionTokens :
         csrfToken = [c \in CtxObjs |-> IF c = 1 THEN t ELSE <<>>]
    /\ \E l \in {NoLimiter, CtxBurst} :
         actionLimiter = [c \in CtxObjs |-> IF c = 1 THEN l ELSE NoLimiter]
    /\ actionRegistry =
         [c \in CtxObjs |-> IF c = 1 THEN PageActions ELSE [a \in ActionIds |-> NoEntry]]
    /\ reqSeq = 0
    /\ lastReq = [id |-> EmptyId, tok |-> <<>>, aid |-> "missing"]
    /\ lastResp = [status |-> 0, outcome |-> "none", invoked |-> FALSE, c |-> NoCtx]
    /\ recoveredPanics = FALSE
    /\ SigIdle
    /\ SyncIdle
    /\ ExtIdle

ActNext ==
    \/ \E id \in RequestIds, tok \in RequestTokens, aid \in RequestActionIds,
          sigs \in InboundSigs :
         ActionRequest(id, tok, aid, sigs) /\ UNCHANGED <<syncVars, extVars>>
    \/ \E c \in CtxObjs : LimiterRefill(c)
         /\ UNCHANGED extVars
    \/ \E c \in CtxObjs, aid \in ActionIds : ActionLimiterRefill(c, aid)
         /\ UNCHANGED extVars
    \/ \E id \in Ids : SessionClose(id)
         /\ UNCHANGED <<actVars, signals, syncVars, extVars>>

\* the action gateway in front of one session
SpecAction == ActInit /\ [][ActNext]_vars

(***************************************************************************)
(* Reactive values, Sync, sendPatch and the pump loop of one session.      *)
(***************************************************************************)
\* Signal(v): a slice is replaced by the text of its JSON form
Marshal(v) == IF v.k = "slice" THEN StrV(SliceText(v.v)) ELSE v

\* Signal(v): the signal stored under a fresh identifier
NewSignal(v) == [val |-> Marshal(v), changed |-> TRUE, err |-> FALSE]

\* signal.SetValue
SetValue(sig, v) == [sig EXCEPT !.val = v, !.changed = TRUE, !.err = FALSE]

\* fmt.Sprintf("%v", sig.val)
Sprintf(v) ==
    IF v.k = "int" THEN DecimalText(v.v)
    ELSE IF v.k = "slice" THEN SliceText(v.v)
    ELSE v.v

\* prepareSignalsForPatch: name -> string form of every changed signal
\* without an error
PrepareSignalsForPatch(sm) ==
    [n \in {m \in SigNames : sm[m] # NoSig /\ ~sm[m].err /\ sm[m].changed} |->
        Sprintf(sm[n].val)]

SendPatchUnbounded(q, p) == Append(q, p)

SendPatchValuesFirst(q, p) ==
    IF Len(q) < PatchChanCap THEN Append(q, p)
    ELSE IF p.typ = "signals" THEN <<p>> \o q ELSE q

\* sendPatch: select { case patchChan <- p: default: }
SendPatch(q, p) == IF Len(q) < PatchChanCap THEN Append(q, p) ELSE q

\* the view of the page: h.Textf("Count: %d", data.Count)
Render(s) == DecimalText(s)

\* the values a page declares, sets and receives from the browser
DeclVals == {IntV(0), SliceV(0)}
SetVals == {IntV(1)}
InjVals == {StrV(DecimalText(0))}
\* the names the page declares; the other names are known to the browser only
DeclNames == {"a"}
\* the inbound signal maps: one name and its value
Inbound == UNION {[{n} -> InjVals] : n \in SigNames}

\* c.Signal(v) under a fresh name n
SignalDeclare(c, n, v) ==
    /\ c \in Registered
    /\ signals[c][n] = NoSig
    /\ signals' = [signals EXCEPT ![c][n] = NewSignal(v)]
    /\ declared' = declared \cup {n}
    /\ dirtied' = dirtied \cup {n}
    /\ touched' = TRUE
    /\ UNCHANGED <<lifeVars, actVars, patchChan, viewState, syncPc, syncCount,
                   lastSync, injected, roundTrip, written, lastElems>>

\* sig.SetValue(v) on the handle c.Signal returned
SignalSetValue(c, n, v) ==
    /\ c \in Registered
    /\ n \in declared
    /\ signals' = [signals EXCEPT ![c][n] = SetValue(@, v)]
    /\ dirtied' = dirtied \cup {n}
    /\ touched' = TRUE
    /\ injected' = [injected EXCEPT ![n] = NoVal]
    /\ roundTrip' = roundTrip \ {n}
    /\ UNCHANGED <<lifeVars, actVars, patchChan, viewState, syncPc, syncCount,
                   lastSync, declared, written, lastElems>>

\* an action request of the browser that passes every gate: the handler
\* injects the inbound signals and runs the callback
InjectRequest(c, sigs) ==
    /\ c \in Registered
    /\ ActionRequest(ctxs[c].id, csrfToken[c], "inc", sigs)
    /\ dirtied' = dirtied \ DOMAIN sigs
    /\ touched' = TRUE
    /\ injected' = [n \in SigNames |->
                      IF n \in DOMAIN sigs THEN sigs[n] ELSE injected[n]]
    /\ roundTrip' =
         (roundTrip \ DOMAIN sigs) \cup
         {n \in DOMAIN sigs \cap declared :
            sigs[n] = StrV(Sprintf(signals[c][n].val))}
    /\ UNCHANGED <<patchChan, viewState, syncPc, syncCount, lastSync, declared,
                   written, lastElems>>

\* the callback changes the data the view shows: data.Count += step.Int()
ViewMutate ==
    /\ viewState' = 1 - viewState
    /\ UNCHANGED <<lifeVars, actVars, signals, patchChan, syncPc, declared,
                   syncCount, lastSync, dirtied, touched, injected, roundTrip,
                   written, lastElems>>

SyncElementsIgnoresError(c, ok) ==
    LET p == [typ |-> "elements", n |-> syncCount + 1,
              html |-> Render(viewState), sigs |-> <<>>]
    IN
    /\ c \in Registered
    /\ syncPc = "idle"
    /\ syncCount < MaxSyncs
    /\ syncCount' = syncCount + 1
    /\ patchChan' = [patchChan EXCEPT ![c] = SendPatch(@, p)]
    /\ syncPc' = "signals"
    /\ lastSync' =
         [NoSync EXCEPT !.n = p.n, !.html = p.html,
            !.elems = IF patchChan'[c] # patchChan[c]
                      THEN "enq" ELSE "dropped",
            !.drained = (patchChan[c] = <<>>),
            !.failed = ~ok]
    /\ UNCHANGED <<lifeVars, actVars, signals, viewState, declared, dirtied,
                   touched, injected, roundTrip, written, lastElems>>

\* Sync, up to its first sendPatch: render the view and offer the elements
\* patch; a render error ends the call
SyncElements(c, ok) ==
    LET p == [typ |-> "elements", n |-> syncCount + 1,
              html |-> Render(viewState), sigs |-> <<>>]
    IN
    /\ c \in Registered
    /\ syncPc = "idle"
    /\ syncCount < MaxSyncs
    /\ syncCount' = syncCount + 1
    /\ IF ok
       THEN /\ patchChan' = [patchChan EXCEPT ![c] = SendPatch(@, p)]
            /\ syncPc' = "signals"
            /\ lastSync' =
                 [NoSync EXCEPT !.n = p.n, !.html = p.html,
                    !.elems = IF patchChan'[c] # patchChan[c]
                              THEN "enq" ELSE "dropped",
                    !.drained = (patchChan[c] = <<>>)]
       ELSE /\ lastSync' = [NoSync EXCEPT !.n = p.n, !.done = TRUE,
                                          !.failed = TRUE]
            /\ UNCHANGED <<patchChan, syncPc>>
    /\ UNCHANGED <<lifeVars, actVars, signals, viewState, declared, dirtied,
                   touched, injected, roundTrip, written, lastElems>>

\* the rest of Sync: compute the delta and offer the signals patch when the
\* delta is not empty
SyncSignals(c) ==
    LET updatedSigs == PrepareSignalsForPatch(signals[c])
        p == [typ |-> "signals", n |-> lastSync.n, html |-> 0,
              sigs |-> updatedSigs]
    IN
    /\ c \in Registered
    /\ syncPc = "signals"
    /\ syncPc' = "idle"
    /\ patchChan' = IF DOMAIN updatedSigs # {}
                    THEN [patchChan EXCEPT ![c] = SendPatch(@, p)]
                    ELSE patchChan
    /\ lastSync' =
         [lastSync EXCEPT
            !.delta = updatedSigs,
            !.sigs = IF DOMAIN updatedSigs = {} THEN "none"
                     ELSE IF patchChan'[c] # patchChan[c] THEN "enq"
                     ELSE "dropped",
            !.expected = [n \in dirtied |-> Sprintf(signals[c][n].val)],
            !.clean = {n \in SigNames : injected[n] # NoVal},
            !.quiet = ~touched,
            !.done = TRUE]
    /\ dirtied' = {}
    /\ touched' = FALSE
    /\ UNCHANGED <<lifeVars, actVars, signals, viewState, declared, syncCount,
                   injected, roundTrip, written, lastElems>>

\* the pump loop, case patch := <-c.patchChan: write it to the connection
PumpReceive(c) ==
    LET p == Head(patchChan[c]) IN
    /\ c \in streaming
    /\ patchChan[c] # <<>>
    /\ patchChan' = [patchChan EXCEPT ![c] = Tail(@)]
    /\ written' = Append(written, <<p.typ, p.n>>)
    /\ lastElems' = IF p.typ = "elements"
                    THEN [n |-> p.n, html |-> p.html] ELSE lastElems
    /\ UNCHANGED <<lifeVars, actVars, signals, viewState, syncPc, declared,
                   syncCount, lastSync, dirtied, touched, injected, roundTrip>>

\* one session with its stream connected, the limiters disabled
SyncInit ==
    /\ contextRegistry = [i \in Ids |-> IF i = 1 THEN 1 ELSE NoCtx]
    /\ ctxs = [c \in CtxObjs |->
                 IF c = 1 THEN [NewContext(1, 0) EXCEPT !.sseConnected = TRUE]
                 ELSE NewContext(EmptyId, 0)]
    /\ nextCtx = 2
    /\ now = 0
    /\ streaming = {1}
    /\ reaperPc = "idle"
    /\ orphans = {}
    /\ cleaned = {}
    /\ cleanedTwice = {}
    /\ reRegistered = {}
    /\ panicked = FALSE
    /\ swept = {}
    /\ csrfToken = [c \in CtxObjs |-> IF c = 1 THEN ZeroToken ELSE <<>>]
    /\ actionLimiter = [c \in CtxObjs |-> NoLimiter]
    /\ actionRegistry =
         [c \in CtxObjs |-> IF c = 1 THEN PageActions ELSE [a \in ActionIds |-> NoEntry]]
    /\ reqSeq = 0
    /\ lastReq = [id |-> EmptyId, tok |-> <<>>, aid |-> "missing"]
    /\ lastResp = [status |-> 0, outcome |-> "none", invoked |-> FALSE, c |-> NoCtx]
    /\ recoveredPanics = FALSE
    /\ SigIdle
    /\ SyncIdle
    /\ ExtIdle

SyncNext ==
    \/ \E c \in CtxObjs, n \in DeclNames, v \in DeclVals : SignalDeclare(c, n, v)
         /\ UNCHANGED extVars
    \/ \E c \in CtxObjs, n \in SigNames, v \in SetVals : SignalSetValue(c, n, v)
         /\ UNCHANGED extVars
    \/ \E c \in CtxObjs, sigs \in Inbound : InjectRequest(c, sigs)
         /\ UNCHANGED extVars
    \/ ViewMutate
         /\ UNCHANGED extVars
    \/ \E c \in CtxObjs, ok \in BOOLEAN : SyncElements(c, ok)
         /\ UNCHANGED extVars
    \/ \E c \in CtxObjs : SyncSignals(c)
         /\ UNCHANGED extVars
    \/ \E c \in CtxObjs : PumpReceive(c)
         /\ UNCHANGED extVars

\* one connected session: values, Sync calls and the pump
SpecSync == SyncInit /\ [][SyncNext]_vars

(***************************************************************************)
(* The start of a stream: GET /_sse up to the pump loop, and the goroutine *)
(* the handler starts.                                                     *)
(***************************************************************************)
\* the frame sse.Send(EventTypePatchElements, []string{}, WithSSEEventId("via"))
\* writes
SentinelFrame == <<"sentinel", 0>>

\* GET /_sse with or without the header last-event-id: via. getCtx, the
\* sentinel frame, sseConnected.Store(true), go func() { c.Sync() }(), and
\* into the pump loop
SSEStream(id, isReconnect) ==
    /\ connect.pc \in {"none", "done"}
    /\ SSEConnect(id)
    /\ written' = Append(written, SentinelFrame)
    /\ connect' = [c |-> GetCtx(contextRegistry, id),
                   reconnect |-> isReconnect,
                   pc |-> "go",
                   alive |-> ctxs'[GetCtx(contextRegistry, id)].sseConnected]
    /\ UNCHANGED <<actVars, signals, patchChan, viewState, syncPc, declared,
                   syncCount, lastSync, dirtied, touched, injected, roundTrip,
                   lastElems>>
    /\ UNCHANGED <<cfgVars, workers, pubsubVars, pageVars, srvVars>>

\* the goroutine of the handler: c.Sync(), up to its first sendPatch
SSEGoSync(c, ok) ==
    /\ connect.c = c
    /\ connect.pc = "go"
    /\ SyncElements(c, ok)
    /\ connect' = [connect EXCEPT !.pc = IF ok THEN "sync" ELSE "done"]
    /\ UNCHANGED <<cfgVars, workers, pubsubVars, pageVars, srvVars>>

\* the goroutine of the handler: the rest of c.Sync()
SSEGoSyncSignals(c) ==
    /\ connect.c = c
    /\ connect.pc = "sync"
    /\ SyncSignals(c)
    /\ connect' = [connect EXCEPT !.pc = "done"]
    /\ UNCHANGED <<cfgVars, workers, pubsubVars, pageVars, srvVars>>

ConnectNext ==
    \/ \E id \in FreshIds : /\ PageRequest(id)
                            /\ UNCHANGED <<actVars, signals, syncVars, extVars>>
    \/ \E c \in CtxObjs, n \in DeclNames, v \in DeclVals :
         SignalDeclare(c, n, v) /\ UNCHANGED extVars
    \/ \E id \in Ids, isReconnect \in BOOLEAN : SSEStream(id, isReconnect)
    \/ \E c \in CtxObjs, ok \in BOOLEAN : SSEGoSync(c, ok)
    \/ \E c \in CtxObjs : SSEGoSyncSignals(c)
    \/ \E c \in CtxObjs : PumpReceive(c) /\ UNCHANGED extVars
    \/ \E c \in CtxObjs : /\ PumpTransportClosed(c)
                          /\ UNCHANGED <<actVars, signals, syncVars, extVars>>

\* pages requested, streams opened as first connects and as reconnects
SpecConnect == LifeInit /\ [][ConnectNext]_vars

(***************************************************************************)
(* The construction of a page: the page handler runs the init function,    *)
(* which may create components, and components of components, and declare  *)
(* signals and actions on any of them; then it registers the page context. *)
(***************************************************************************)
\* Context.isComponent
IsComponent(c) == parentPageCtx[c] # NoCtx

ComponentParentIsCaller(c) == c

\* Context.Component: the parentPageCtx of the new context
ComponentParent(c) == IF IsComponent(c) THEN parentPageCtx[c] ELSE c

\* Context.Signal, Context.Action: the context whose map receives the entry
StoreTarget(c) == IF IsComponent(c) THEN parentPageCtx[c] ELSE c

\* the component contexts created so far, and the context that created k
Components == UNION {componentRegistry[c] : c \in AllCtxs}
Creator(k) == CHOOSE c \in AllCtxs : k \in componentRegistry[c]

\* the page context at the top of the tree a context was created in
RECURSIVE PageOf(_)
PageOf(c) == IF c \in Components THEN PageOf(Creator(c)) ELSE c

\* the contexts the init function of the page under construction holds
Building == {c \in {building} \cup Components : PageOf(c) = building} \ {NoCtx}

\* the actions a page declares
PageActionIds == {"inc"}

\* GET <route>, first part: newContext(id, route, v); initContextFn(c) starts
PageBegin(id) ==
    /\ building = NoCtx
    /\ nextCtx <= NCtx
    /\ ctxs' = [ctxs EXCEPT ![nextCtx] = NewContext(id, now)]
    /\ nextCtx' = nextCtx + 1
    /\ building' = nextCtx
    /\ UNCHANGED <<contextRegistry, now, streaming, reaperPc, orphans, cleaned,
                   cleanedTwice, reRegistered, panicked, swept>>
    /\ UNCHANGED <<actVars, signals, syncVars, cfgVars, workers, connect,
                   pubsubVars, srvVars, parentPageCtx, componentRegistry, componentMaps,
                   declaredBy, lastDecl>>

\* c.Component(initCtx): a new context whose parentPageCtx is that of c, or c
\* itself when c is a page; it is entered in c.componentRegistry
Component(c) ==
    LET k == NCtx + Cardinality(Components) + 1 IN
    /\ c \in Building
    /\ k \in CompObjs
    /\ parentPageCtx' = [parentPageCtx EXCEPT ![k] = ComponentParent(c)]
    /\ componentRegistry' = [componentRegistry EXCEPT ![c] = @ \cup {k}]
    /\ UNCHANGED <<lifeVars, actVars, signals, syncVars, cfgVars, workers,
                   connect, pubsubVars, srvVars, building, componentMaps, declaredBy, lastDecl>>

SignalStoresNil(v) ==
    [stored |-> TRUE,
     sig |-> [val |-> StrV(ErrorText), changed |-> FALSE, err |-> TRUE]]

\* Context.Signal up to the store: a nil value gives a placeholder that is
\* returned and not stored, any other value a signal to store
Signal(v) ==
    IF v = NilV
    THEN [stored |-> FALSE,
          sig |-> [val |-> StrV(ErrorText), changed |-> FALSE, err |-> TRUE]]
    ELSE [stored |-> TRUE, sig |-> NewSignal(v)]

\* Context.Action up to the store: a nil func gives a nil handle
Action(a, f) ==
    IF f = NilFn
    THEN [stored |-> FALSE, handle |-> NoHandle]
    ELSE [stored |-> TRUE, handle |-> a]

\* c.Signal(v) during init, under a fresh identifier n
ComponentSignal(c, n, v) ==
    LET t == StoreTarget(c)
        r == Signal(v)
    IN
    /\ c \in Building
    /\ declaredBy[n] = NoCtx
    /\ lastDecl' = [op |-> "signal", by |-> c,
        nil |-> v = NilV, sig |-> r.sig, handle |-> NoHandle]
    /\ IF ~r.stored
       THEN UNCHANGED <<declaredBy, signals, componentMaps>>
       ELSE /\ declaredBy' = [declaredBy EXCEPT ![n] = c]
            /\ IF t \in CtxObjs
               THEN /\ signals' = [signals EXCEPT ![t][n] = r.sig]
                    /\ UNCHANGED componentMaps
               ELSE /\ componentMaps' =
                         [componentMaps EXCEPT ![t] = @ \cup {n}]
                    /\ UNCHANGED signals
    /\ UNCHANGED <<lifeVars, actVars, syncVars, cfgVars, workers, connect,
                   pubsubVars, srvVars, parentPageCtx, componentRegistry,
                   building>>

\* c.Action(f) during init, under a fresh identifier a
ComponentAction(c, a, f) ==
    LET t == StoreTarget(c)
        r == Action(a, f)
    IN
    /\ c \in Building
    /\ declaredBy[a] = NoCtx
    /\ lastDecl' = [op |-> "action", by |-> c,
        nil |-> f = NilFn, sig |-> NoSig, handle |-> r.handle]
    /\ IF ~r.stored
       THEN UNCHANGED <<declaredBy, actionRegistry, componentMaps>>
       ELSE /\ declaredBy' = [declaredBy EXCEPT ![a] = c]
            /\ IF t \in CtxObjs
               THEN /\ actionRegistry' =
                         [actionRegistry EXCEPT
                            ![t][a] = [fn |-> f, limiter |-> NoLimiter]]
                    /\ UNCHANGED componentMaps
               ELSE /\ componentMaps' =
                         [componentMaps EXCEPT ![t] = @ \cup {a}]
                    /\ UNCHANGED actionRegistry
    /\ UNCHANGED <<lifeVars, csrfToken, actionLimiter, reqSeq, lastReq,
                   lastResp, recoveredPanics, signals, syncVars, cfgVars,
                   workers, connect, pubsubVars, srvVars, parentPageCtx,
                   componentRegistry, building>>

\* GET <route>, last part: initContextFn(c) has returned; registerCtx(c)
PageEnd ==
    /\ building # NoCtx
    /\ contextRegistry' =
         RegisterCtx(contextRegistry, ctxs[building].id, building)
    /\ building' = NoCtx
    /\ UNCHANGED <<ctxs, nextCtx, now, streaming, reaperPc, orphans, cleaned,
                   cleanedTwice, reRegistered, panicked, swept>>
    /\ UNCHANGED <<actVars, signals, syncVars, cfgVars, workers, connect,
                   pubsubVars, srvVars, parentPageCtx, componentRegistry, componentMaps,
                   declaredBy, lastDecl>>

PageNext ==
    \/ \E id \in FreshIds : PageBegin(id)
    \/ \E c \in AllCtxs : Component(c)
    \/ \E c \in AllCtxs, n \in DeclNames, v \in DeclVals \cup {NilV} :
         ComponentSignal(c, n, v)
    \/ \E c \in AllCtxs, a \in PageActionIds, f \in {"ok", NilFn} :
         ComponentAction(c, a, f)
    \/ PageEnd

(***************************************************************************)
(* Sync called on a page context or on one of its components.              *)
(***************************************************************************)
\* c.signals of a context: a page's map, or the map newContext gave a
\* component, which holds what was stored in the component itself
OwnSignals(c) ==
    IF c \in CtxObjs THEN signals[c]
    ELSE [n \in SigNames |->
            IF n \in componentMaps[c]
            THEN [val |-> NoVal, changed |-> TRUE, err |-> FALSE]
            ELSE NoSig]

\* c.Sync() on a page or component context, the view rendering without
\* error: c.view() is rendered, the delta is computed from c.signals, and
\* both patches are offered to the channel getPatchChan returns
ContextSync(c) ==
    LET page == StoreTarget(c)
        updatedSigs == PrepareSignalsForPatch(OwnSignals(c))
        e == [typ |-> "elements", n |-> syncCount + 1,
              html |-> Render(viewState), sigs |-> <<>>]
        p == [typ |-> "signals", n |-> syncCount + 1, html |-> 0,
              sigs |-> updatedSigs]
    IN
    /\ building = NoCtx
    /\ c \in Registered \cup Components
    /\ PageOf(c) \in Registered
    /\ syncCount < MaxSyncs
    /\ syncCount' = syncCount + 1
    /\ patchChan' =
         [patchChan EXCEPT
            ![page] = IF DOMAIN updatedSigs # {}
                      THEN SendPatch(SendPatch(@, e), p)
                      ELSE SendPatch(@, e)]
    /\ lastSync' = [NoSync EXCEPT !.n = e.n, !.by = c, !.view = c,
                                  !.html = e.html, !.delta = updatedSigs,
                                  !.done = TRUE]
    /\ UNCHANGED <<lifeVars, actVars, signals, viewState, syncPc, declared,
                   dirtied, touched, injected, roundTrip, written, lastElems,
                   extVars>>

ChildSyncNext ==
    \/ PageBegin(1)
    \/ \E c \in AllCtxs : Component(c)
    \/ \E c \in AllCtxs, n \in DeclNames, v \in DeclVals :
         ComponentSignal(c, n, v)
    \/ PageEnd
    \/ \E c \in AllCtxs : ContextSync(c)

\* one page built with components, registered, and synced from any of its
\* contexts
SpecChildSync == LifeInit /\ [][ChildSyncNext]_vars

(***************************************************************************)
(* The locks taken around the reactive values and the child-session map.   *)
(***************************************************************************)
Goroutines == {"handler", "routine"}

\* the operations that read or write a session's values or child map
LockedOps == {"SetValue", "Signal", "Component", "injectSignals",
              "prepareSignalsForPatch"}

\* the lock an operation on context c holds while it accesses, and how:
\* signal.SetValue and Context.Component take none, Context.Signal and
\* injectSignals take c.mu.Lock(), prepareSignalsForPatch c.mu.RLock()
LockOf(op, c) ==
    IF op \in {"SetValue", "Component"} THEN [mu |-> NoCtx, mode |-> "none"]
    ELSE IF op = "prepareSignalsForPatch" THEN [mu |-> c, mode |-> "read"]
    ELSE [mu |-> c, mode |-> "write"]

\* the context whose map the operation accesses: the page for a value a
\* component declares or sets, the receiver otherwise
OwnerOf(op, c) == IF op \in {"SetValue", "Signal"} THEN StoreTarget(c) ELSE c

\* a goroutine starts an operation on context c and name n: it takes the
\* operation's lock when the lock is free, and is inside the access
Enter(g, op, c, n) ==
    LET l == LockOf(op, c)
        holders == {a \in accessing : a.mu = l.mu /\ l.mu # NoCtx}
    IN
    /\ building = NoCtx
    /\ c \in Registered \cup Components
    /\ PageOf(c) \in Registered
    /\ op # "Component" => declaredBy[n] # NoCtx
    /\ op \in {"SetValue", "Signal"} => declaredBy[n] = c
    /\ op = "injectSignals" => c \in Registered
    /\ \A a \in accessing : a.g # g
    /\ l.mode = "write" => holders = {}
    /\ l.mode = "read" => \A a \in holders : a.mode = "read"
    /\ accessing' = accessing \cup
         {[g |-> g, op |-> op, mu |-> l.mu, mode |-> l.mode,
           owner |-> OwnerOf(op, c),
           obj |-> IF op = "Component" THEN "componentRegistry" ELSE n,
           write |-> op # "prepareSignalsForPatch"]}
    /\ UNCHANGED <<lifeVars, actVars, signals, syncVars, cfgVars, workers,
                   connect, pubsubVars, pageVars, lastClose, shutdownPc,
                   reaperStop, drainContexts, drained, routeVars>>

\* the operation returns and its deferred Unlock runs
Leave(g) ==
    /\ \E a \in accessing : a.g = g
    /\ accessing' = {a \in accessing : a.g # g}
    /\ UNCHANGED <<lifeVars, actVars, signals, syncVars, cfgVars, workers,
                   connect, pubsubVars, pageVars, lastClose, shutdownPc,
                   reaperStop, drainContexts, drained, routeVars>>

LockNext ==
    \/ PageBegin(1)
    \/ \E c \in AllCtxs : Component(c)
    \/ \E c \in AllCtxs, n \in DeclNames, v \in DeclVals :
         ComponentSignal(c, n, v)
    \/ PageEnd
    \/ \E g \in Goroutines, op \in LockedOps, c \in AllCtxs, n \in DeclNames :
         Enter(g, op, c, n)
    \/ \E g \in Goroutines : Leave(g)

\* one registered page with components, and two goroutines that work on it
SpecLock == LifeInit /\ [][LockNext]_vars

\* pages built with components and registered
SpecPage == LifeInit /\ [][PageNext]_vars

(***************************************************************************)
(* C3: an action request whose token differs from the token of the session *)
(* it addresses is answered 403 Forbidden and its callback is not invoked, *)
(* whatever the action id and the state of the limiters.                   *)
(***************************************************************************)
C3_BadTokenForbidden ==
    (lastResp.c # NoCtx /\ lastReq.tok # csrfToken[lastResp.c]) =>
        /\ lastResp.status = 403
        /\ lastResp.outcome = "Forbidden"
        /\ ~lastResp.invoked

\* a request for an existing action whose token has the right length and a
\* wrong byte, made while the limiter would have allowed it
C3_Witness ==
    /\ lastResp.c # NoCtx
    /\ Len(lastReq.tok) = TokenLen
    /\ lastReq.tok # csrfToken[lastResp.c]
    /\ lastReq.aid = "inc"
    /\ ~LimiterDenies(actionLimiter[lastResp.c])
    /\ lastResp.status = 403

(***************************************************************************)
(* C4: a panic of an action callback is recovered in the handler: no panic *)
(* escapes, the handler answers normally, the registry is unchanged by the *)
(* request, and every later request that passes the gates of the same      *)
(* session still has its callback invoked.                                 *)
(***************************************************************************)
\* the request of this step passes every gate of the handler
C4_PassesGates ==
    LET c == GetCtx(contextRegistry, lastReq'.id) IN
    /\ c # NoCtx
    /\ lastReq'.tok = csrfToken[c]
    /\ actionLimiter[c] = NoLimiter \/ actionLimiter[c] >= 1
    /\ lastReq'.aid \in ActionIds
    /\ \/ actionRegistry[c][lastReq'.aid].limiter = NoLimiter
       \/ actionRegistry[c][lastReq'.aid].limiter >= 1

C4_RequestStep ==
    (reqSeq' # reqSeq /\ C4_PassesGates) =>
        /\ lastResp'.invoked
        /\ lastResp'.status = 200
        /\ ~panicked'
        /\ contextRegistry' = contextRegistry
        /\ (lastReq'.aid = "boom") = (lastResp'.outcome = "ActionPanicked")

C4_PanicRecovered == [][C4_RequestStep]_vars

\* after a recovered panic, a later request of the same session was invoked
C4_Witness ==
    /\ recoveredPanics
    /\ lastResp.outcome = "Invoked"
    /\ lastResp.c \in Registered

(***************************************************************************)
(* C1: for a registered session c, cleanupCtx(c) called one or more times  *)
(* never panics, and once a call has returned getCtx(c.id) reports         *)
(* not-found until a session with that identifier is registered again.     *)
(***************************************************************************)
C1_CleanupIdempotent ==
    /\ ~panicked
    /\ \A c \in cleaned :
          c \notin reRegistered => GetCtx(contextRegistry, ctxs[c].id) = NoCtx

\* a session cleaned up twice whose identifier is still not found
C1_Witness ==
    \E c \in cleanedTwice :
        /\ c \notin reRegistered
        /\ GetCtx(contextRegistry, ctxs[c].id) = NoCtx

(***************************************************************************)
(* C2: a reaper sweep with time-to-live TTL selects, when it takes its     *)
(* snapshot, exactly the registered sessions that are not connected and    *)
(* older than TTL; it disposes and unregisters those and no other session, *)
(* so a connected session and a session no older than TTL stay registered. *)
(***************************************************************************)
Age(c) == now - ctxs[c].createdAt

IsRegistered(reg, c) == \E i \in Ids : reg[i] = c

C2_SnapshotStep ==
    (reaperPc = "idle" /\ reaperPc' = "reap") =>
        \A c \in CtxObjs :
            c \in orphans' <=>
                /\ IsRegistered(contextRegistry, c)
                /\ ctxs[c].sseConnected = FALSE
                /\ Age(c) >= TTL + 1

C2_CleanupStep ==
    (reaperPc = "reap" /\ orphans' # orphans) =>
        /\ \A c \in orphans \ orphans' :
              /\ c \in swept
              /\ c \in cleaned'
              /\ ctxs'[c].ctxDisposedChan = DisposedChanCap
              /\ ~IsRegistered(contextRegistry', c)
        /\ \A c \in CtxObjs \ swept :
              /\ IsRegistered(contextRegistry, c) => IsRegistered(contextRegistry', c)
              /\ ctxs'[c] = ctxs[c]

C2_DoneStep ==
    (reaperPc = "reap" /\ reaperPc' = "idle") =>
        \A c \in swept : c \in cleaned /\ ~IsRegistered(contextRegistry', c)

C2_ReaperSweep == [][C2_SnapshotStep /\ C2_CleanupStep /\ C2_DoneStep]_vars

\* a finished sweep that removed a session and left registered a connected
\* session older than TTL and a session exactly TTL old
C2_Witness ==
    /\ reaperPc = "idle"
    /\ \E c \in swept : c \in cleaned /\ ~IsRegistered(contextRegistry, c)
    /\ \E c \in CtxObjs :
          /\ IsRegistered(contextRegistry, c)
          /\ ctxs[c].sseConnected
          /\ Age(c) > TTL

(***************************************************************************)
(* Claims about sendPatch, Sync and the reactive values.                   *)
(***************************************************************************)
\* a step in which Sync calls sendPatch: with the elements patch after a
\* render, or with the signals patch of a delta that is not empty
C5_SendStep ==
    \/ syncPc = "idle" /\ syncPc' = "signals"
    \/ syncPc = "signals" /\ syncPc' = "idle" /\ DOMAIN lastSync'.delta # {}

C5_Bounded == \A c \in CtxObjs : Len(patchChan[c]) <= PatchChanCap

C5_CallerProceeds ==
    /\ syncPc = "signals" => ENABLED (\E c \in CtxObjs : SyncSignals(c))
    /\ (syncPc = "idle" /\ syncCount < MaxSyncs) =>
          ENABLED (\E c \in CtxObjs : SyncElements(c, TRUE))

C5_DropStep ==
    C5_SendStep =>
      \A c \in CtxObjs :
        /\ Len(patchChan[c]) = PatchChanCap => patchChan'[c] = patchChan[c]
        /\ Len(patchChan'[c]) >= Len(patchChan[c])

\* C5: sendPatch never blocks its caller. The mailbox of a session never
\* holds more than PatchChanCap (one) patch; a Sync that is about to call
\* sendPatch can always take its step, whatever the mailbox holds; and a
\* sendPatch on a full mailbox leaves the queued patch as it was, the new
\* patch being discarded.
C5_SendPatchNeverBlocks ==
    [](C5_Bounded /\ C5_CallerProceeds) /\ [][C5_DropStep]_vars

\* a Sync call has returned after its signals patch found the mailbox full
\* and was discarded, the mailbox still holding the earlier patch
C5_Witness ==
    /\ lastSync.done
    /\ lastSync.sigs = "dropped"
    /\ \E c \in streaming :
         /\ Len(patchChan[c]) = PatchChanCap
         /\ Head(patchChan[c]).typ = "elements"

\* C6: the value delta a Sync call computes holds exactly the values whose
\* dirty flag was set since the previous delta was computed (and not cleared
\* by an injection since), each as name -> string form, and no other value.
C6_DeltaIsWhatChanged ==
    (lastSync.done /\ lastSync.elems # "none") =>
        lastSync.delta = lastSync.expected

\* C7: a Sync call that follows an earlier one whose patches the pump has
\* written, with no declaration, SetValue or injection since the earlier
\* delta was computed and with the mailbox empty when it starts, enqueues its
\* elements patch and computes an empty delta, so it offers no signals patch.
C7_SecondSyncHasNoDelta ==
    (/\ lastSync.done
     /\ lastSync.elems # "none"
     /\ \E i, j \in DOMAIN written :
          /\ written[i] = <<"elements", lastSync.n - 1>>
          /\ written[j] = <<"signals", lastSync.n - 1>>
     /\ lastSync.quiet
     /\ lastSync.drained) =>
        /\ lastSync.elems = "enq"
        /\ DOMAIN lastSync.delta = {}
        /\ lastSync.sigs = "none"

\* C8: a name whose last write was an injection is tracked, is not dirty and
\* holds the injected value; when the injection repeated the string form of a
\* declared value the stored value still has that string form; the delta of
\* a Sync call holds no name whose last write was an injection; an injected
\* name the page never declared is tracked and not dirty.
C8_InjectionIsNotEchoed ==
    \A c \in streaming :
      /\ \A n \in SigNames :
           injected[n] # NoVal =>
             /\ signals[c][n] # NoSig
             /\ ~signals[c][n].changed
             /\ signals[c][n].val = injected[n]
      /\ \A n \in roundTrip :
           /\ n \in declared
           /\ injected[n] # NoVal
           /\ Sprintf(signals[c][n].val) = injected[n].v
      /\ lastSync.done => DOMAIN lastSync.delta \cap lastSync.clean = {}

\* a declared value was injected with its own string form and an undeclared
\* name was injected, and a Sync call computed its delta after both
C8_Witness ==
    /\ lastSync.done
    /\ lastSync.elems # "none"
    /\ \E n \in roundTrip : n \in lastSync.clean
    /\ \E m \in SigNames \ declared : m \in lastSync.clean

\* the pump wrote the elements patch of a Sync call before it wrote the
\* signals patch of the same call, for every call of which it wrote both
C9_WrittenInOrder ==
    \A i, j \in DOMAIN written :
        (/\ written[i][2] = written[j][2]
         /\ written[i][1] = "elements"
         /\ written[j][1] = "signals") => i < j

\* C9 as stated: a Sync call with a delta that is not empty has both its
\* patches enqueued, and the pump receives them elements first.
C9_BothEnqueued ==
    /\ (lastSync.done /\ DOMAIN lastSync.delta # {}) =>
          (lastSync.elems = "enq" /\ lastSync.sigs = "enq")
    /\ C9_WrittenInOrder

\* C9, amended: Sync offers the elements patch first and the signals patch
\* after it; either is enqueued only when the mailbox has room and is
\* discarded otherwise, so a call with a delta may leave one, both or none
\* of them; the pump never receives the signals patch of a call before the
\* elements patch of the same call, and a signals patch is never queued ahead
\* of the elements patch of its call.
C9_ElementsFirst ==
    /\ C9_WrittenInOrder
    /\ lastSync.sigs # "none" => lastSync.elems # "none"
    /\ \A c \in CtxObjs : \A i, j \in DOMAIN patchChan[c] :
         (/\ patchChan[c][i].n = patchChan[c][j].n
          /\ patchChan[c][i].typ = "elements"
          /\ patchChan[c][j].typ = "signals") => i < j
    /\ \A c \in streaming : \A i \in DOMAIN patchChan[c] :
         patchChan[c][i].typ = "elements" =>
            <<"signals", patchChan[c][i].n>> \notin
                {written[k] : k \in DOMAIN written}

\* the pump wrote both patches of one Sync call, elements first, and it
\* wrote only the elements patch of another call, whose signals patch was
\* discarded
C9_Witness ==
    /\ \E i, j \in DOMAIN written :
         /\ i < j
         /\ written[i][2] = written[j][2]
         /\ written[i][1] = "elements"
         /\ written[j][1] = "signals"
    /\ lastSync.done
    /\ lastSync.elems = "enq"
    /\ lastSync.sigs = "dropped"

\* C10: once the Sync calls have returned and the pump has emptied the
\* mailbox, the elements patch the pump wrote last shows what the last Sync
\* call rendered.
C10_LastRenderWins ==
    (/\ syncPc = "idle"
     /\ lastSync.done
     /\ lastSync.elems # "none"
     /\ \A c \in CtxObjs : patchChan[c] = <<>>) =>
        lastElems.html = lastSync.html

(***************************************************************************)
(* Claims about disposal, the pump's exits and the stream's start.         *)
(***************************************************************************)
\* C11: once a session has been disposed and its disposal signal has been
\* taken, every listener of the session has stopped: its pump is not
\* streaming and none of its OnInterval routines runs; and no disposal, first
\* or repeated, panics.
C11_EveryListenerStops ==
    /\ ~panicked
    /\ \A c \in cleaned :
         ctxs[c].ctxDisposedChan = 0 => (c \notin streaming /\ workers[c] = 0)

\* the pump of c leaves the loop through case <-sse.Context().Done(): the
\* session is disposed (its signal is on the channel) and its identifier no
\* longer resolves
C12_TransportExit(c) ==
    /\ c \in cleaned'
    /\ ctxs'[c].ctxDisposedChan = DisposedChanCap
    /\ GetCtx(contextRegistry', ctxs[c].id) = NoCtx
    /\ c \notin {contextRegistry'[i] : i \in Ids}

\* the pump of c leaves the loop through case <-c.ctxDisposedChan: a signal
\* was there to take, and the registry and the disposals are as they were
C12_DisposedExit(c) ==
    /\ ctxs[c].ctxDisposedChan > 0
    /\ contextRegistry' = contextRegistry
    /\ cleaned' = cleaned
    /\ cleanedTwice' = cleanedTwice

\* C12: a pump that is streaming stops streaming in exactly two ways: its
\* transport closes, and then the step disposes the session and removes it
\* from the registry; or the session's disposal signal fires, and then the
\* step leaves the registry as it was.
C12_PumpLeavesInTwoWays ==
    [][\A c \in CtxObjs :
         (c \in streaming /\ c \notin streaming') =>
            (C12_TransportExit(c) \/ C12_DisposedExit(c))]_vars

\* one pump has left because its transport closed (disposed once, by the
\* pump, the signal still on the channel) and another because its session
\* was disposed elsewhere (the signal taken)
C12_Witness ==
    \E c, d \in CtxObjs :
        /\ c # d
        /\ ctxs[c].sseConnected /\ c \notin streaming
        /\ c \in cleaned \ cleanedTwice
        /\ ctxs[c].ctxDisposedChan = DisposedChanCap
        /\ c \notin Registered
        /\ ctxs[d].sseConnected /\ d \notin streaming
        /\ d \in cleaned \ cleanedTwice
        /\ ctxs[d].ctxDisposedChan = 0

\* C13: when the stream of a session starts as a first connect (no
\* last-event-id: via), the one synchronization the handler starts is
\* value-only: it renders and offers no elements patch.
C13_FirstConnectSyncsValuesOnly ==
    (connect.pc = "done" /\ ~connect.reconnect) =>
        lastSync.elems = "none"

\* C14: subscriptions never outlive their session: every subscription that
\* is active in the backend belongs to a session that has not been
\* disposed, and no handler of a disposed session is called by a publish.
C14_NoSubscriptionOutlivesItsSession ==
    /\ \A h \in SubIds :
         pubsubSubs[h].active => pubsubSubs[h].owner \notin cleaned
    /\ \A c \in CtxObjs : c \in cleaned => subscriptions[c] = {}

\* C15: a publish on a topic calls the handler of every subscription to
\* that topic, whichever session holds it, except those that were
\* unsubscribed before, by their holder or by the disposal of their session;
\* these are not called and the others still are.
C15_DeliveryFollowsSubscriptions ==
    lastPublish.from # NoCtx =>
        lastPublish.to = lastPublish.subs \ lastPublish.stopped

\* two sessions subscribed to the topic, one was disposed since, and a
\* publish reached the handler of the other only
C15_Witness ==
    \E g, h \in SubIds :
        /\ lastPublish.subs = {g, h}
        /\ pubsubSubs[g].owner # pubsubSubs[h].owner
        /\ pubsubSubs[g].owner \in cleaned
        /\ lastPublish.stopped = {g}
        /\ lastPublish.to = {h}

\* the session the request of this step addresses, and whether the request
\* gets as far as the limiters
C16_Ctx == GetCtx(contextRegistry, lastReq'.id)

C16_ReachesLimiters ==
    /\ reqSeq' # reqSeq
    /\ C16_Ctx # NoCtx
    /\ lastReq'.tok = csrfToken[C16_Ctx]

\* a limiter that is configured and has no token left, before the request
C16_Empty(lim) == lim # NoLimiter /\ lim < 1

C16_Denied == lastResp'.status = 429 /\ ~lastResp'.invoked

C16_RequestStep ==
    LET c == C16_Ctx
        aid == lastReq'.aid
    IN
    /\ (reqSeq' # reqSeq /\ lastResp'.invoked) =>
          /\ C16_ReachesLimiters
          /\ ~C16_Empty(actionLimiter[c])
          /\ ~C16_Empty(actionRegistry[c][aid].limiter)
          /\ actionLimiter[c] # NoLimiter =>
                actionLimiter'[c] = actionLimiter[c] - 1
          /\ actionRegistry[c][aid].limiter # NoLimiter =>
                actionRegistry'[c][aid].limiter =
                    actionRegistry[c][aid].limiter - 1
    /\ (C16_ReachesLimiters /\ C16_Empty(actionLimiter[c])) => C16_Denied
    /\ (/\ C16_ReachesLimiters
        /\ ~C16_Empty(actionLimiter[c])
        /\ aid \in ActionIds
        /\ C16_Empty(actionRegistry[c][aid].limiter)) => C16_Denied

C17_RequestStep ==
    LET c == C16_Ctx
        aid == lastReq'.aid
    IN
    (/\ C16_ReachesLimiters
     /\ aid \in ActionIds
     /\ actionRegistry[c][aid].limiter # NoLimiter
     /\ actionRegistry[c][aid].limiter >= 1) => lastResp'.invoked

\* C17: the limiter of an action registered with WithRateLimit overrides
\* the context-level one: a request for such an action is admitted whenever
\* the action's own limiter allows it, whatever the context-level limiter.
C17_OwnLimiterOverrides == [][C17_RequestStep]_vars

\* the registry after the step: an identifier no context was created with
\* is not found, and what is found under an identifier carries it
C18_LookupNext ==
    \A id \in Ids :
        LET c == GetCtx(contextRegistry', id) IN
        /\ (\A d \in 1..(nextCtx' - 1) : ctxs'[d].id # id) => c = NoCtx
        /\ c # NoCtx => ctxs'[c].id = id

\* a page request registers its new context: it is what its identifier
\* resolves to afterwards, whatever was there, and no other entry moves
C18_RegisterStep ==
    nextCtx' # nextCtx =>
        LET id == ctxs'[nextCtx].id IN
        /\ GetCtx(contextRegistry', id) = nextCtx
        /\ \A j \in Ids \ {id} : contextRegistry'[j] = contextRegistry[j]

\* a cleanupCtx call unregisters: the identifier of its context is not
\* found afterwards, and no other entry moves
C18_UnregisterStep ==
    \A c \in CtxObjs :
        (c \in (cleaned' \ cleaned) \cup (cleanedTwice' \ cleanedTwice)) =>
            /\ GetCtx(contextRegistry', ctxs[c].id) = NoCtx
            /\ \A j \in Ids \ {ctxs[c].id} :
                 contextRegistry'[j] = contextRegistry[j]

\* C18: the registry's contract under any interleaving of its callers:
\* after register(c), get(c.id) returns c, also when the identifier was
\* present (the entry is replaced); get of an identifier never registered,
\* or unregistered, finds nothing; an identifier has at most one entry, the
\* session that carries it.
C18_RegistryContract ==
    [][C18_LookupNext /\ C18_RegisterStep /\ C18_UnregisterStep]_vars

\* a registration replaced the entry of a session that had not been cleaned
\* up: two live contexts carry the identifier and the later one is found
C18_Witness ==
    \E c, d \in Allocated :
        /\ c < d
        /\ ctxs[c].id = ctxs[d].id
        /\ c \notin cleaned
        /\ d \notin cleaned
        /\ GetCtx(contextRegistry, ctxs[c].id) = d

\* C19: whatever components a page construction creates, at any depth: no
\* component context is an entry of the registry; the parent reference of
\* every component is the page context at the top of its tree, which is not
\* itself a component; and every signal and action a component declares is
\* stored in the maps of that page context, none in a component's own maps.
C19_ComponentsLiveInTheirPage ==
    /\ \A i \in Ids : contextRegistry[i] \notin Components
    /\ \A k \in Components :
         /\ parentPageCtx[k] = PageOf(k)
         /\ PageOf(k) \in CtxObjs
         /\ parentPageCtx[PageOf(k)] = NoCtx
         /\ componentMaps[k] = {}
    /\ \A n \in SigNames :
         declaredBy[n] # NoCtx => signals[PageOf(declaredBy[n])][n] # NoSig
    /\ \A a \in ActionIds :
         declaredBy[a] # NoCtx =>
            actionRegistry[PageOf(declaredBy[a])][a] # NoEntry

\* a registered page with a component of a component that declared a signal
\* and an action
C19_Witness ==
    \E k \in Components, n \in SigNames, a \in ActionIds :
        /\ Creator(k) \in Components
        /\ declaredBy[n] = k
        /\ declaredBy[a] = k
        /\ building = NoCtx
        /\ PageOf(k) \in Registered

\* no reaper loop exists and no sweep has selected a session
C20_NoReaper ==
    /\ reaperPc \in {"unstarted", "disabled"}
    /\ swept = {}
    /\ orphans = {}

\* C20 as stated: a zero or negative configured TTL disables the reaper:
\* no loop is started and no session is evicted by age.
C20_NonPositiveTTLDisables == cfgTTL <= 0 => C20_NoReaper

\* C20 as the code has it: a negative TTL disables the reaper (no loop, no
\* session ever selected by age); with a zero TTL the loop is started like
\* with a positive one, and sweeps with the default TTL.
C20_NegativeTTLDisables ==
    /\ cfgTTL < 0 => C20_NoReaper
    /\ (cfgTTL >= 0 /\ reaperPc # "unstarted") => reaperPc \in {"idle", "reap"}
    /\ \A c \in swept :
         now - ctxs[c].createdAt >
            (IF cfgTTL = 0 THEN DefaultTTL ELSE cfgTTL)

\* started with a negative TTL, a session that never connected is older
\* than any TTL of the model and still registered
C20_Witness ==
    /\ cfgTTL < 0
    /\ reaperPc = "disabled"
    /\ \E c \in Registered :
         /\ ~ctxs[c].sseConnected
         /\ now - ctxs[c].createdAt = MaxTime

(***************************************************************************)
(* Claims about the close endpoint, shutdown, page registration and the    *)
(* declarations of a page.                                                 *)
(***************************************************************************)
\* the session registered under the body of the close request of this step
C21_Target ==
    IF lastClose'.id \in Ids THEN contextRegistry[lastClose'.id] ELSE NoCtx

C21_CloseStep ==
    lastClose'.seq # lastClose.seq =>
        IF C21_Target # NoCtx
        THEN /\ C21_Target \in cleaned'
             /\ ctxs'[C21_Target].ctxDisposedChan = DisposedChanCap
             /\ contextRegistry'[lastClose'.id] = NoCtx
             /\ \A j \in Ids \ {lastClose'.id} :
                  contextRegistry'[j] = contextRegistry[j]
             /\ reaperPc' = reaperPc /\ swept' = swept /\ orphans' = orphans
        ELSE /\ contextRegistry' = contextRegistry
             /\ ctxs' = ctxs
             /\ cleaned' = cleaned
             /\ streaming' = streaming
             /\ subscriptions' = subscriptions
             /\ pubsubSubs' = pubsubSubs

\* C21: a close request whose body is the identifier of a registered
\* session disposes that session and removes it from the registry within
\* the request, no reaper sweep involved; a close request for an unknown
\* identifier changes neither the registry nor any session.
C21_CloseIsImmediate == [][C21_CloseStep]_vars

\* a close request found nothing under its body while another session was
\* registered, after an earlier close had removed a streaming session that
\* no sweep had selected
C21_Witness ==
    /\ lastClose.seq = 0
    /\ lastClose.c = NoCtx
    /\ lastClose.id \in Ids
    /\ Registered # {}
    /\ \E c \in cleaned \ swept : c \in streaming /\ ctxs[c].id = lastClose.id

\* C22: when Shutdown returns, the reaper loop has been told to stop, the
\* registry is empty, and every session that was registered has been
\* disposed, by the drain or by an earlier cleanup, also when page requests
\* register sessions while the shutdown runs.
C22_ShutdownDrainsAll ==
    shutdownPc = "done" =>
        /\ reaperStop = "closed"
        /\ Registered = {}
        /\ \A c \in Allocated : c \in cleaned \cup drained


C23_DryRuns == {c \in 1..(nextCtx' - 1) : ctxs'[c].id = EmptyId}

C23_PageStep ==
    /\ lastPage' # lastPage =>
         /\ lastPage'.initRuns = 1
         /\ lastPage'.viewRuns =
              (IF lastPage'.init \in {"ok", "viewPanics"} THEN 1 ELSE 0)
         /\ lastPage'.init # "ok" =>
              /\ lastPage'.panicked
              /\ routes' = routes
              /\ lastPage'.route \notin routes'
         /\ lastPage'.init = "ok" =>
              /\ ~lastPage'.panicked
              /\ lastPage'.route \in routes'
         /\ ctxs'[lastPage'.dry].id = EmptyId
         /\ contextRegistry' = contextRegistry
    /\ \A c \in C23_DryRuns : \A i \in Ids : contextRegistry'[i] # c

\* C23: Page(route, init) runs init and the view it defined once against a
\* dry-run context with the empty identifier; when either panics, or init
\* defined no view, the panic reaches the caller and the route gets no
\* handler; the dry-run context is never in the registry.
C23_PageFailsFast == [][C23_PageStep]_vars

C23_Witness ==
    /\ lastPage.init = "noView"
    /\ lastPage.panicked
    /\ lastPage.viewRuns = 0
    /\ lastPage.route \notin routes
    /\ routes # {}
    /\ lastPage.dry \in Allocated \ Registered


C24_DeclStep ==
    (lastDecl' # lastDecl \/ declaredBy' # declaredBy) =>
        /\ building' = building
        /\ building' # NoCtx
        /\ lastDecl'.nil =>
             /\ signals' = signals
             /\ actionRegistry' = actionRegistry
             /\ componentMaps' = componentMaps
             /\ declaredBy' = declaredBy
             /\ lastDecl'.op = "signal" =>
                  /\ lastDecl'.sig.err
                  /\ lastDecl'.sig.val = StrV(ErrorText)
             /\ lastDecl'.op = "action" => lastDecl'.handle = NoHandle
        /\ ~lastDecl'.nil =>
             /\ lastDecl'.op = "signal" => ~lastDecl'.sig.err
             /\ lastDecl'.op = "action" => lastDecl'.handle # NoHandle

\* C24: declaring a nil value or a nil callback does not fail the page under
\* construction: Signal(nil) returns an errored placeholder, Action(nil) a
\* null handle, and neither call changes the value map or the action
\* registry.
C24_NilDeclarationsAreInert == [][C24_DeclStep]_vars

C24_Witness ==
    /\ lastDecl.nil
    /\ lastDecl.op = "signal"
    /\ lastDecl.by \in Components
    /\ PageOf(lastDecl.by) \in Registered
    /\ \E a \in PageActionIds : declaredBy[a] # NoCtx


C25_Inert ==
    /\ pubsubSubs' = pubsubSubs
    /\ subscriptions' = subscriptions
    /\ lastPublish' = lastPublish

C25_CallStep ==
    /\ (lastCall'.subscribe # lastCall.subscribe \/ UsedSubs' # UsedSubs) =>
         LET r == lastCall'.subscribe IN
         /\ (~backend /\ ~r.dry) => r.err /\ r.handle = NilSub /\ C25_Inert
         /\ (backend /\ r.dry) => ~r.err /\ r.handle = NilSub /\ C25_Inert
         /\ (backend /\ ~r.dry) =>
              /\ ~r.err
              /\ r.handle \in UsedSubs' \ UsedSubs
              /\ \E c \in Allocated : r.handle \in subscriptions'[c]
    /\ (lastCall'.publish # lastCall.publish \/ lastPublish' # lastPublish) =>
         LET r == lastCall'.publish IN
         /\ (~backend /\ ~r.dry) => r.err /\ C25_Inert
         /\ (backend /\ r.dry) => ~r.err /\ C25_Inert
         /\ (backend /\ ~r.dry) => ~r.err /\ lastPublish'.from # NoCtx

\* C25: without a backend, Publish and Subscribe on a session with an
\* identifier return an error and create no subscription; on the dry-run
\* context, with a backend, both return no error, Subscribe returns no
\* handle, and nothing is published, subscribed or tracked.
C25_NoBackendAndDryRunAreNoOps == [][C25_CallStep]_vars

C25_Witness ==
    /\ backend
    /\ lastCall.publish.err
    /\ ~lastCall.publish.dry
    /\ lastCall.subscribe.dry
    /\ ~lastCall.subscribe.err
    /\ lastCall.subscribe.handle = NilSub
    /\ UsedSubs = {}

C26_PublishStep ==
    lastPublish' # lastPublish =>
        LET p == lastPublish' IN
        /\ DOMAIN p.got = p.to
        /\ pubsubSubs' = pubsubSubs
        /\ ~lastCall'.publish.err
        /\ \A h \in p.to :
             /\ p.got[h].calls <= 1
             /\ \A m \in MsgVals :
                  p.data = JsonMarshal(m) =>
                      p.got[h] = [calls |-> 1, msg |-> m]
             /\ p.data.json \in {"invalid", "number"} => p.got[h].calls = 0
             /\ p.data.json = "object" => p.got[h].calls = 1

\* C26: the typed Subscribe wrapper calls the user handler exactly once, with
\* the decoded value, for each delivered payload that deserializes into the
\* expected type, and not at all for one that does not; that payload is
\* dropped without an error and the subscription stays active.
C26_TypedSubscribeSkipsBadPayloads == [][C26_PublishStep]_vars

C26_Witness ==
    /\ lastPublish.data.json = "invalid"
    /\ lastPublish.to # {}
    /\ \A h \in lastPublish.to :
         /\ lastPublish.got[h].calls = 0
         /\ pubsubSubs[h].active
    /\ ~lastCall.publish.err


\* C27: a Sync called on a component renders the view of the page it belongs
\* to and computes the delta from the page's value map, so a dirty value
\* that component declared is in the delta of its own Sync.
C27_ChildSyncUsesTheRoot ==
    lastSync.by \in Components =>
        /\ lastSync.view = PageOf(lastSync.by)
        /\ \A n \in SigNames :
             (/\ declaredBy[n] = lastSync.by
              /\ signals[PageOf(lastSync.by)][n].changed
              /\ ~signals[PageOf(lastSync.by)][n].err)
                 => n \in DOMAIN lastSync.delta


\* C28: every access to a session's values and to its child-session map is
\* made while holding the lock of the session that owns the map, and no two
\* goroutines are inside accesses to the same value or map, one of them a
\* write, at the same time.
C28_AccessesHoldTheOwnersLock ==
    /\ \A a \in accessing : a.mu = a.owner
    /\ \A a, b \in accessing :
         (a.g # b.g /\ a.owner = b.owner /\ a.obj = b.obj) =>
             (~a.write /\ ~b.write)


\* the request of this step fails a gate of the handler: its session is not
\* registered, its token is wrong, a limiter it meets is empty, or its
\* action is not in the registry
C29_FailsAGate ==
    LET c == GetCtx(contextRegistry, lastReq'.id)
        aid == lastReq'.aid
    IN
    /\ reqSeq' # reqSeq
    /\ IF c = NoCtx THEN TRUE
       ELSE IF lastReq'.tok # csrfToken[c] THEN TRUE
       ELSE IF actionLimiter[c] # NoLimiter /\ actionLimiter[c] < 1 THEN TRUE
       ELSE IF aid \notin ActionIds THEN TRUE
       ELSE /\ actionRegistry[c][aid].limiter # NoLimiter
            /\ actionRegistry[c][aid].limiter < 1

C29_RequestStep ==
    /\ C29_FailsAGate =>
         /\ lastResp'.outcome \in {"SessionNotFound", "Forbidden", "RateLimited",
                                   "ActionNotFound", "RateLimitedPerAction"}
         /\ ~lastResp'.invoked
         /\ signals' = signals
         /\ patchChan' = patchChan
         /\ recoveredPanics' = recoveredPanics
         /\ contextRegistry' = contextRegistry
    /\ (reqSeq' # reqSeq /\ ~C29_FailsAGate) => lastResp'.invoked

C30_SyncStep ==
    (lastSync'.n # lastSync.n /\ lastSync'.failed) =>
        /\ patchChan' = patchChan
        /\ signals' = signals
        /\ dirtied' = dirtied
        /\ syncPc' = "idle"
        /\ lastSync'.done
        /\ lastSync'.elems = "none"
        /\ lastSync'.sigs = "none"
        /\ panicked' = panicked

\* C30: when rendering the view fails during Sync, the Sync ends there and
\* nothing reaches the caller: no elements patch and no value-delta patch is
\* enqueued, and no dirty flag changes.
C30_RenderFailureAbortsSync == [][C30_SyncStep]_vars

\* a failed Sync of a session with a dirty value and room in its channel
C30_Witness ==
    /\ lastSync.failed
    /\ lastSync.done
    /\ dirtied # {}
    /\ \E c \in Registered :
         /\ patchChan[c] = <<>>
         /\ \E n \in SigNames : signals[c][n].changed


(***************************************************************************)
(* Claims about races of the lifecycle, fairness, the limiters' tokens,    *)
(* shutdown, the persisted sessions of DevMode and newLimiter.             *)
(***************************************************************************)
C31_CleanupStep ==
    /\ (reaperPc = "reap" /\ orphans' # orphans) =>
         \A c \in (orphans \ orphans') \cap streaming :
             /\ c \in cleaned'
             /\ c \in streaming'
             /\ ctxs'[c].ctxDisposedChan > 0
    /\ \A c \in (swept' \cap cleaned') \ orphans' :
         /\ GetCtx(contextRegistry', ctxs'[c].id) = NoCtx
         /\ c \in streaming' => ctxs'[c].ctxDisposedChan > 0

\* C31: a session whose stream connects after the reaper's snapshot selected
\* it is still disposed and unregistered by that sweep; its pump then has
\* the disposal signal to stop on, and a later lookup of the identifier
\* finds nothing.
C31_LateConnectionIsStillReaped == [][C31_CleanupStep]_vars

\* what the scheduler and the clients are assumed to provide: the clock and
\* the reaper's ticker go on, the reaper's goroutine and every pump are
\* scheduled, and the transport of every stream is closed at some time
ReapFairness ==
    /\ WF_vars(Tick /\ UNCHANGED <<actVars, signals, syncVars, extVars>>)
    /\ WF_vars((ReaperSnapshot \/ ReaperDone
                  \/ \E c \in CtxObjs : ReaperCleanup(c))
                 /\ UNCHANGED <<actVars, signals, syncVars, extVars>>)
    /\ \A c \in CtxObjs :
         WF_vars((PumpTransportClosed(c) \/ PumpDisposed(c))
                  /\ UNCHANGED <<actVars, signals, syncVars, extVars>>)

\* the steps of SpecReap, with pages requested only while the clock of the
\* model can still see the new session age past the TTL
FairNext ==
    \/ Tick
         /\ UNCHANGED <<actVars, signals, syncVars, extVars>>
    \/ \E id \in FreshIds : PageRequest(id)
         /\ now + ReaperTTL(cfgTTL) < MaxTime
         /\ UNCHANGED <<actVars, signals, syncVars, extVars>>
    \/ \E id \in Ids : SSEConnect(id)
         /\ UNCHANGED <<actVars, signals, syncVars, extVars>>
    \/ \E id \in Ids : SessionClose(id)
         /\ UNCHANGED <<actVars, signals, syncVars, extVars>>
    \/ \E c \in CtxObjs : PumpTransportClosed(c)
         /\ UNCHANGED <<actVars, signals, syncVars, extVars>>
    \/ \E c \in CtxObjs : PumpDisposed(c)
         /\ UNCHANGED <<actVars, signals, syncVars, extVars>>
    \/ ReaperSnapshot
         /\ UNCHANGED <<actVars, signals, syncVars, extVars>>
    \/ \E c \in CtxObjs : ReaperCleanup(c)
         /\ UNCHANGED <<actVars, signals, syncVars, extVars>>
    \/ ReaperDone
         /\ UNCHANGED <<actVars, signals, syncVars, extVars>>

\* the lifecycle of SpecReap under fair scheduling
SpecFair == LifeInit /\ [][FairNext]_vars /\ ReapFairness

StreamOpen(id) ==
    LET c == GetCtx(contextRegistry, id) IN
    /\ c # NoCtx
    /\ pumps[c] < MaxPumps
    /\ ctxs' = [ctxs EXCEPT ![c].sseConnected = TRUE]
    /\ pumps' = [pumps EXCEPT ![c] = @ + 1]
    /\ streaming' = streaming \cup {c}
    /\ UNCHANGED <<contextRegistry, nextCtx, now, reaperPc, orphans,
                   cleaned, cleanedTwice, reRegistered, panicked, swept>>

\* one pump loop of c, case <-sse.Context().Done(): cleanupCtx(c); return
StreamTransportClosed(c) ==
    /\ pumps[c] > 0
    /\ CleanupCtx(c)
    /\ pumps' = [pumps EXCEPT ![c] = @ - 1]
    /\ streaming' = IF pumps[c] = 1 THEN streaming \ {c} ELSE streaming
    /\ UNCHANGED <<nextCtx, now, reaperPc, orphans, reRegistered, swept>>

\* one pump loop of c, case <-c.ctxDisposedChan: return
StreamDisposed(c) ==
    /\ pumps[c] > 0
    /\ ctxs[c].ctxDisposedChan > 0
    /\ ctxs' = [ctxs EXCEPT ![c].ctxDisposedChan = @ - 1]
    /\ pumps' = [pumps EXCEPT ![c] = @ - 1]
    /\ streaming' = IF pumps[c] = 1 THEN streaming \ {c} ELSE streaming
    /\ UNCHANGED <<contextRegistry, nextCtx, now, reaperPc, orphans,
                   cleaned, cleanedTwice, reRegistered, panicked, swept>>

StreamsNext ==
    \/ \E id \in FreshIds : PageRequest(id)
         /\ UNCHANGED <<actVars, signals, syncVars, extVars>>
    \/ \E id \in Ids : StreamOpen(id)
         /\ UNCHANGED <<actVars, signals, syncVars, cfgTTL, running, toolVars,
                        workers, connect, pubsubVars, pageVars, srvVars>>
    \/ \E c \in CtxObjs : StreamTransportClosed(c)
         /\ UNCHANGED <<actVars, signals, syncVars, cfgTTL, running, toolVars,
                        workers, connect, pubsubVars, pageVars, srvVars>>
    \/ \E c \in CtxObjs : StreamDisposed(c)
         /\ UNCHANGED <<actVars, signals, syncVars, cfgTTL, running, toolVars,
                        workers, connect, pubsubVars, pageVars, srvVars>>
    \/ \E id \in Ids : SessionClose(id)
         /\ UNCHANGED <<actVars, signals, syncVars, extVars>>

\* pages requested and streams opened, any number of them for one session
SpecStreams == LifeInit /\ [][StreamsNext]_vars

C33_StreamStep ==
    \A c \in CtxObjs :
        /\ pumps'[c] <= 1
        /\ (pumps'[c] < pumps[c] /\ c \in cleaned' \ cleaned) => pumps'[c] = 0

\* C33: a session has at most one pump loop streaming at any time, and the
\* closing of a connection tears the session down only when no other
\* connection of the session is streaming.
C33_OneStreamPerSession == [][C33_StreamStep]_vars

(***************************************************************************)
(* An action request in two steps: the handler looks the session up, and   *)
(* later calls the callback on the context it holds.  Other requests and   *)
(* the reaper run in between.                                              *)
(***************************************************************************)
\* GET /_action/{id}, after the gates: injectSignals(sigs); entry.fn()
CallbackStart(c) ==
    /\ c \in inflight \ running
    /\ running' = running \cup {c}
    /\ UNCHANGED <<lifeVars, pumps, pubsubVars>>

\* entry.fn() returns and the handler with it
CallbackReturn(c) ==
    /\ c \in running
    /\ running' = running \ {c}
    /\ inflight' = inflight \ {c}
    /\ UNCHANGED <<lifeVars, pumps, subscriptions, pubsubSubs, lastPublish,
                   stopped, callVars>>

CallbackNext ==
    \/ Tick
         /\ UNCHANGED <<actVars, signals, syncVars, extVars>>
    \/ \E id \in FreshIds : PageRequest(id)
         /\ UNCHANGED <<actVars, signals, syncVars, extVars>>
    \/ \E id \in Ids : ActionLookup(id)
         /\ UNCHANGED <<lifeVars, actVars, signals, syncVars, cfgVars, workers,
                        connect, pageVars, srvVars>>
    \/ \E c \in CtxObjs : CallbackStart(c)
         /\ UNCHANGED <<actVars, signals, syncVars, cfgTTL, toolVars, workers,
                        connect, pageVars, srvVars>>
    \/ \E c \in CtxObjs : CallbackReturn(c)
         /\ UNCHANGED <<actVars, signals, syncVars, cfgTTL, toolVars, workers,
                        connect, pageVars, srvVars>>
    \/ \E id \in Ids : SessionClose(id)
         /\ UNCHANGED <<actVars, signals, syncVars, cfgVars, workers, connect,
                        pageVars, srvVars, inflight, lastPublish, callVars>>
    \/ ReaperSnapshot
         /\ UNCHANGED <<actVars, signals, syncVars, extVars>>
    \/ \E c \in CtxObjs : ReaperCleanup(c)
         /\ UNCHANGED <<actVars, signals, syncVars, extVars>>
    \/ ReaperDone
         /\ UNCHANGED <<actVars, signals, syncVars, extVars>>

\* sessions whose action requests race with their close requests and with
\* the reaper
SpecCallback == LifeInit /\ [][CallbackNext]_vars

(***************************************************************************)
(* DevMode's file of persisted contexts, as the map it is decoded to and   *)
(* encoded from.                                                           *)
(***************************************************************************)
\* devModePersist: the entry is added unless the identifier has one
DevModePersist(m, id, route) ==
    IF m[id] = NoRoute THEN [m EXCEPT ![id] = route] ELSE m

\* devModeRemovePersisted of the earlier via.go: delete only when absent
DevModeRemovePersistedUnlessPresent(m, id) ==
    IF m[id] = NoRoute THEN [m EXCEPT ![id] = NoRoute] ELSE m

\* devModeRemovePersisted: delete(ctxRegMap, c.id)
DevModeRemovePersisted(m, id) == [m EXCEPT ![id] = NoRoute]

\* v.devModePersist(c) for a context with this identifier and route
PersistCtx(id, route) ==
    /\ persisted' = DevModePersist(persisted, id, route)
    /\ lastPersist' = [op |-> "persist", id |-> id, before |-> persisted]
    /\ UNCHANGED <<lifeVars, actVars, signals, syncVars, cfgTTL, pumps,
                   running, lastLimiter, workers, connect, pubsubVars,
                   pageVars, srvVars>>

\* v.devModeRemovePersisted(c) for a context with this identifier
RemovePersisted(id) ==
    /\ persisted' = DevModeRemovePersisted(persisted, id)
    /\ lastPersist' = [op |-> "remove", id |-> id,
                       before |-> IF lastPersist.op = "persist"
                                     /\ lastPersist.id = id
                                  THEN lastPersist.before ELSE persisted]
    /\ UNCHANGED <<lifeVars, actVars, signals, syncVars, cfgTTL, pumps,
                   running, lastLimiter, workers, connect, pubsubVars,
                   pageVars, srvVars>>

PersistNext ==
    \/ \E id \in PersistIds, route \in Routes : PersistCtx(id, route)
    \/ \E id \in PersistIds : RemovePersisted(id)

\* contexts persisted and removed in any order
SpecPersist == LifeInit /\ [][PersistNext]_vars

(***************************************************************************)
(* newLimiter and the limiter it returns.                                  *)
(***************************************************************************)
\* the values of RateLimitConfig.Rate and .Burst and of the defaults
CfgRates == {-2, -1, 0, 1}
CfgBursts == 0..MaxBurst
DefaultRates == {-1, 2}
DefaultBursts == {0, MaxBurst}

NewLimiterIgnoresDefaults(rate, burst, defaultRate, defaultBurst) ==
    [nil |-> rate = -1, rate |-> rate, burst |-> burst, tokens |-> burst]

\* newLimiter(cfg, defaultRate, defaultBurst); rate.NewLimiter starts with a
\* full bucket
NewLimiter(rate, burst, defaultRate, defaultBurst) ==
    LET r == IF rate = 0 THEN defaultRate ELSE rate
        b == IF burst = 0 THEN defaultBurst ELSE burst
    IN  IF rate = -1
        THEN [nil |-> TRUE, rate |-> 0, burst |-> 0, tokens |-> 0]
        ELSE [nil |-> FALSE, rate |-> r, burst |-> b, tokens |-> b]

\* l := newLimiter(RateLimitConfig{Rate: rate, Burst: burst}, dr, db)
LimiterNew(rate, burst, dr, db) ==
    /\ lastLimiter' = [rate |-> rate, burst |-> burst, defaultRate |-> dr,
                       defaultBurst |-> db,
                       lim |-> NewLimiter(rate, burst, dr, db),
                       admitted |-> 0, denied |-> FALSE]
    /\ UNCHANGED <<lifeVars, actVars, signals, syncVars, cfgTTL, pumps,
                   running, persisted, lastPersist, workers, connect,
                   pubsubVars, pageVars, srvVars>>

\* l.Allow(), no time having passed since the limiter was made
LimiterAllow ==
    /\ ~lastLimiter.lim.nil
    /\ ~lastLimiter.denied
    /\ lastLimiter' =
         IF LimiterAllows(lastLimiter.lim.tokens)
         THEN [lastLimiter EXCEPT !.lim.tokens = LimiterTake(@),
                                  !.admitted = @ + 1]
         ELSE [lastLimiter EXCEPT !.denied = TRUE]
    /\ UNCHANGED <<lifeVars, actVars, signals, syncVars, cfgTTL, pumps,
                   running, persisted, lastPersist, workers, connect,
                   pubsubVars, pageVars, srvVars>>

LimiterNext ==
    \/ \E rate \in CfgRates, burst \in CfgBursts, dr \in DefaultRates,
          db \in DefaultBursts : LimiterNew(rate, burst, dr, db)
    \/ LimiterAllow

\* limiters made from any configuration and asked until they deny
SpecLimiter == LifeInit /\ [][LimiterNext]_vars

C34_RequestStep ==
    LET c == GetCtx(contextRegistry, lastReq'.id)
        aid == lastReq'.aid
        forbidden == IF c = NoCtx THEN TRUE ELSE lastReq'.tok # csrfToken[c]
        limited == actionLimiter[c] # NoLimiter /\ actionLimiter[c] < 1
    IN
    reqSeq' # reqSeq =>
        /\ forbidden =>
              /\ actionLimiter' = actionLimiter
              /\ actionRegistry' = actionRegistry
        /\ (~forbidden /\ (limited \/ aid \notin ActionIds)) =>
              actionRegistry' = actionRegistry
        /\ (~forbidden /\ limited) => actionLimiter' = actionLimiter

\* C34: an action request rejected because the session is unknown or the CSRF
\* token is wrong takes no token from any limiter, and one rejected by the
\* session-level limiter or because the action is unknown takes no token
\* from a per-action limiter.
C34_TokensAreChargedAtTheGate == [][C34_RequestStep]_vars

\* a request for an unknown action has taken a token of the session-level
\* limiter and left the per-action limiters full
C34_Witness ==
    /\ lastResp.outcome = "ActionNotFound"
    /\ lastResp.c \in Registered
    /\ actionLimiter[lastResp.c] = CtxBurst - 1
    /\ \E aid \in ActionIds :
         actionRegistry[lastResp.c][aid].limiter = ActBurst

C35_UnregisterStep ==
    \A id \in Ids :
        (contextRegistry[id] # NoCtx /\ contextRegistry'[id] = NoCtx) =>
            contextRegistry[id] \in cleaned'

\* C35: a step removes from the registry only the session object it tears
\* down: an entry that disappears held the object cleanupCtx was called on,
\* never another object registered under the same identifier.
C35_TeardownRemovesOnlyItsObject == [][C35_UnregisterStep]_vars

C36_CallbackStep ==
    \A c \in running' \ running :
        /\ c \notin cleaned
        /\ GetCtx(contextRegistry, ctxs[c].id) = c

\* C36: an action callback starts only on a session that is registered and
\* not disposed, also when the request looked the session up before it was
\* closed or reaped.
C36_NoCallbackAfterDisposal == [][C36_CallbackStep]_vars

C37_ShutdownStep ==
    shutdownPc = "done" =>
        /\ ~panicked'
        /\ shutdownPc' # "panicked"
        /\ Registered' \subseteq Registered

\* C37: V.Shutdown can be called again after it has returned: no call of it
\* panics, and a later call adds nothing to the registry the first one left.
C37_ShutdownTwiceIsSafe == [][C37_ShutdownStep]_vars

C38_RemovedEntry(id) ==
    /\ persisted'[id] = NoRoute
    /\ \A j \in PersistIds \ {id} : persisted'[j] = persisted[j]

C38_IsRoundTrip ==
    /\ lastPersist.op = "persist"
    /\ lastPersist'.op = "remove"
    /\ lastPersist'.id = lastPersist.id

C38_RemoveStep ==
    /\ lastPersist'.op = "remove" => C38_RemovedEntry(lastPersist'.id)
    /\ C38_IsRoundTrip =>
         persisted' = DevModeRemovePersisted(lastPersist.before, lastPersist.id)
    /\ (C38_IsRoundTrip /\ lastPersist.before[lastPersist.id] = NoRoute) =>
         persisted' = lastPersist.before

\* C38 as amended: devModeRemovePersisted(c) removes the entry of c.id and
\* leaves every other entry as it was; persisting a context and then removing
\* it restores the map when c.id had no entry before, and otherwise removes
\* the entry the identifier already had.
C38_RemoveDeletesTheEntry == [][C38_RemoveStep]_vars

\* C38 as stated: persisting a context and then removing it always restores
\* the persisted map.
C38_RoundTripRestoresTheMap ==
    [][C38_IsRoundTrip => persisted' = lastPersist.before]_vars

\* a context was persisted next to another one and removed again, and the
\* map is what it was before
C38_Witness ==
    /\ lastPersist.op = "remove"
    /\ lastPersist.before[lastPersist.id] = NoRoute
    /\ persisted = lastPersist.before
    /\ \E j \in PersistIds : persisted[j] # NoRoute

\* C39: newLimiter returns no limiter exactly when cfg.Rate is -1; otherwise
\* the limiter has cfg.Rate, or the default rate when that is 0, and
\* cfg.Burst, or the default burst when that is 0; asked with no time
\* passing, it admits exactly as many requests as its burst.
C39_NewLimiterAppliesDefaults ==
    LET l == lastLimiter IN
    /\ l.lim.nil <=> (l.rate = -1 \/ l = NoLimiterCall)
    /\ ~l.lim.nil =>
         /\ l.lim.rate = (IF l.rate = 0 THEN l.defaultRate ELSE l.rate)
         /\ l.lim.burst = (IF l.burst = 0 THEN l.defaultBurst ELSE l.burst)
         /\ l.admitted <= l.lim.burst
         /\ l.denied => l.admitted = l.lim.burst
         /\ l.admitted + l.lim.tokens = l.lim.burst

\* a limiter made with the default burst has admitted that many requests
\* and denied the next
C39_Witness ==
    /\ ~lastLimiter.lim.nil
    /\ lastLimiter.burst = 0
    /\ lastLimiter.rate = 0
    /\ lastLimiter.denied
    /\ lastLimiter.admitted = MaxBurst

====
